---- MODULE Spec2Model ----
(***************************************************************************)
(* Burrow launcher: the query router of the browser mock (mockSearch), the *)
(* launcher session of the App component (query, results, secondary-input  *)
(* mode, action dispatch), the history ledger and the indexer.             *)
(*                                                                         *)
(* Strings are sequences of one-character strings, so that prefixes,       *)
(* trimming and substring tests are computed and not assumed.              *)
(***************************************************************************)
EXTENDS Integers, Sequences, FiniteSets, Bags, TLC

\* ------------------------------------------------------------------ bounds

\* Longest query string the router specification classifies.
MaxLen == 4

\* ------------------------------------------------------------- characters

SP == " "
TAB == "\t"

\* The characters the router specification builds queries from: every prefix
\* character of mockSearch, both kinds of whitespace, letters for "ssh" (one
\* of them also in upper case), two digits and three arithmetic operators.
Alphabet == {":", "#", "?", "!", "s", "h", "S", SP, TAB, "*", "1", "+", "0", "%"}

\* JavaScript white space, as String.prototype.trim and the regexp class \s
\* see it.
IsSpace(c) == c \in {SP, TAB}

IsDigit(c) == c \in {"0", "1", "2", "3", "4", "5", "6", "7", "8", "9"}

IsLetter(c) == c \in {"s", "h", "S"}

Strings(n) == UNION {[1..k -> Alphabet] : k \in 0..n}

\* ------------------------------------------------------- string primitives

\* String.prototype.startsWith
startsWith(s, p) == Len(s) >= Len(p) /\ SubSeq(s, 1, Len(p)) = p

\* String.prototype.slice(n)
slice(s, n) == SubSeq(s, n + 1, Len(s))

\* A test for a prefix in place of a substring.
isPrefix(s, p) == Len(s) >= Len(p) /\ SubSeq(s, 1, Len(p)) = p

\* String.prototype.includes
includes(s, p) == \E i \in 0..(Len(s) - Len(p)) : SubSeq(s, i + 1, i + Len(p)) = p

RECURSIVE trimStart(_)
\* String.prototype.trimStart
trimStart(s) == IF s # <<>> /\ IsSpace(Head(s)) THEN trimStart(Tail(s)) ELSE s

RECURSIVE trimEnd(_)
\* String.prototype.trimEnd
trimEnd(s) ==
  IF s # <<>> /\ IsSpace(s[Len(s)]) THEN trimEnd(SubSeq(s, 1, Len(s) - 1)) ELSE s

\* The string as it is, its white space kept.
untrimmed(s) == s

\* String.prototype.trim
trim(s) == trimEnd(trimStart(s))

UpperCase ==
  <<"A", "B", "C", "D", "E", "F", "G", "H", "I", "J", "K", "L", "M",
     "N", "O", "P", "Q", "R", "S", "T", "U", "V", "W", "X", "Y", "Z">>

LowerCase ==
  <<"a", "b", "c", "d", "e", "f", "g", "h", "i", "j", "k", "l", "m",
     "n", "o", "p", "q", "r", "s", "t", "u", "v", "w", "x", "y", "z">>

\* The lower-case form of one character (the Latin letters; every other
\* character of the model is its own lower case).
lowerChar(c) ==
  IF \E i \in 1..26 : UpperCase[i] = c
  THEN LowerCase[CHOOSE i \in 1..26 : UpperCase[i] = c]
  ELSE c

\* String.prototype.toLowerCase
toLowerCase(s) == [i \in 1..Len(s) |-> lowerChar(s[i])]

\* --------------------------------------- JavaScript expression evaluation
\* mockSearch evaluates a query with Function(`"use strict"; return (${query})`)().
\* The evaluation is modelled for the expressions the model's characters can
\* spell: numeric literals, identifiers (never bound: a ReferenceError when
\* evaluated), unary + and !, prefix and postfix ++, binary + * % **, the
\* short-circuiting ?? and the conditional operator. The remainder of a
\* division by zero is NaN, the one value of the model that is not finite.

DigitVal(c) ==
  CASE c = "0" -> 0 [] c = "1" -> 1 [] c = "2" -> 2 [] c = "3" -> 3 [] c = "4" -> 4
    [] c = "5" -> 5 [] c = "6" -> 6 [] c = "7" -> 7 [] c = "8" -> 8 [] OTHER -> 9

RECURSIVE runEnd(_, _, _)
\* The first index from i on whose character is not of the run (digits only, or
\* identifier characters when idRun).
runEnd(s, i, idRun) ==
  IF i <= Len(s) /\ (IsDigit(s[i]) \/ (idRun /\ IsLetter(s[i])))
  THEN runEnd(s, i + 1, idRun) ELSE i

RECURSIVE digitsValue(_, _, _)
digitsValue(s, i, j) ==
  IF i >= j THEN 0 ELSE digitsValue(s, i, j - 1) * 10 + DigitVal(s[j - 1])

Tok(k, v) == [k |-> k, v |-> v]

RECURSIVE Lex(_, _)
\* The token sequence of s from index i, longest match first; a "bad" token
\* stands for a lexical error.
Lex(s, i) ==
  IF i > Len(s) THEN <<>>
  ELSE LET c == s[i]
           two(d) == i < Len(s) /\ s[i + 1] = d
       IN CASE IsSpace(c) -> Lex(s, i + 1)
            [] IsDigit(c) ->
                 LET j == runEnd(s, i, FALSE)
                 IN IF (j <= Len(s) /\ IsLetter(s[j])) \/ (c = "0" /\ j > i + 1)
                    THEN <<Tok("bad", 0)>>
                    ELSE <<Tok("num", digitsValue(s, i, j))>> \o Lex(s, j)
            [] IsLetter(c) -> <<Tok("id", 0)>> \o Lex(s, runEnd(s, i, TRUE))
            [] c = "+" -> IF two("+") THEN <<Tok("++", 0)>> \o Lex(s, i + 2)
                          ELSE <<Tok("+", 0)>> \o Lex(s, i + 1)
            [] c = "*" -> IF two("*") THEN <<Tok("**", 0)>> \o Lex(s, i + 2)
                          ELSE <<Tok("*", 0)>> \o Lex(s, i + 1)
            [] c = "?" -> IF two("?") THEN <<Tok("??", 0)>> \o Lex(s, i + 2)
                          ELSE <<Tok("?", 0)>> \o Lex(s, i + 1)
            [] c = "%" -> <<Tok("%", 0)>> \o Lex(s, i + 1)
            [] c = "!" -> <<Tok("!", 0)>> \o Lex(s, i + 1)
            [] c = ":" -> <<Tok(":", 0)>> \o Lex(s, i + 1)
            [] OTHER -> <<Tok("bad", 0)>>

\* A parse result: ok (no syntax error so far), i (the next token), the
\* outcome of evaluating the parsed expression: t in {"num", "nan", "bool",
\* "ref"} ("ref": a ReferenceError is thrown; "nan": NaN, with v = 0) with
\* value v (a boolean as 0 or 1), and
\* the form of the expression: "id", "lit", "unary", "update" or "expr".
PR(ok, i, t, v, form) == [ok |-> ok, i |-> i, t |-> t, v |-> v, form |-> form]

SyntaxError == PR(FALSE, 0, "ref", 0, "expr")

tokAt(toks, i) == IF i <= Len(toks) THEN toks[i].k ELSE "eof"

truthy(r) == r.v # 0

RECURSIVE Pow(_, _)
Pow(a, b) == IF b = 0 THEN 1 ELSE a * Pow(a, b - 1)

\* A binary arithmetic operator on two evaluated operands (ToNumber of a
\* boolean is 0 or 1).
binary(op, l, r, i) ==
  IF l.t = "ref" \/ r.t = "ref" THEN PR(TRUE, i, "ref", 0, "expr")
  ELSE IF op = "**" /\ r.t # "nan" /\ r.v = 0 THEN PR(TRUE, i, "num", 1, "expr")
  ELSE IF l.t = "nan" \/ r.t = "nan" \/ (op = "%" /\ r.v = 0)
  THEN PR(TRUE, i, "nan", 0, "expr")
  ELSE PR(TRUE, i, "num",
          CASE op = "+" -> l.v + r.v [] op = "*" -> l.v * r.v
            [] op = "%" -> l.v % r.v [] OTHER -> Pow(l.v, r.v),
          "expr")

RECURSIVE ParseUnary(_, _), ParseExp(_, _), ParseMulRest(_, _), ParseAddRest(_, _)
RECURSIVE ParseCoalesceRest(_, _), ParseCond(_, _)

\* An optional postfix ++ after the primary expression p: only an identifier
\* is an assignment target.
postfix(toks, p) ==
  IF p.ok /\ tokAt(toks, p.i) = "++"
  THEN IF p.form = "id" THEN PR(TRUE, p.i + 1, "ref", 0, "update") ELSE SyntaxError
  ELSE p

\* PrimaryExpression with an optional postfix ++.
ParseUpdate(toks, i) ==
  postfix(toks, CASE tokAt(toks, i) = "num" -> PR(TRUE, i + 1, "num", toks[i].v, "lit")
                  [] tokAt(toks, i) = "id" -> PR(TRUE, i + 1, "ref", 0, "id")
                  [] OTHER -> SyntaxError)

\* The unary operator k applied to the operand r.
unary(k, r) ==
  IF k = "++"
  THEN IF r.ok /\ r.form = "id" THEN PR(TRUE, r.i, "ref", 0, "update") ELSE SyntaxError
  ELSE IF ~r.ok THEN SyntaxError
  ELSE IF r.t = "ref" THEN PR(TRUE, r.i, "ref", 0, "unary")
  ELSE IF k = "+" THEN PR(TRUE, r.i, IF r.t = "nan" THEN "nan" ELSE "num", r.v, "unary")
  ELSE PR(TRUE, r.i, "bool", IF truthy(r) THEN 0 ELSE 1, "unary")

ParseUnary(toks, i) ==
  IF tokAt(toks, i) \in {"+", "!", "++"}
  THEN unary(tokAt(toks, i), ParseUnary(toks, i + 1))
  ELSE ParseUpdate(toks, i)

\* The binary operator op applied to l and the right operand r.
applied(op, l, r) == IF r.ok THEN binary(op, l, r, r.i) ELSE SyntaxError

\* ExponentiationExpression after its left operand l: right associative, and
\* a unary operator may not be the left operand.
ParseExpRest(toks, l) ==
  IF l.ok /\ tokAt(toks, l.i) = "**"
  THEN IF l.form = "unary" THEN SyntaxError
       ELSE applied("**", l, ParseExp(toks, l.i + 1))
  ELSE l

ParseExp(toks, i) == ParseExpRest(toks, ParseUnary(toks, i))

ParseMulRest(toks, l) ==
  IF l.ok /\ tokAt(toks, l.i) \in {"*", "%"}
  THEN ParseMulRest(toks, applied(tokAt(toks, l.i), l, ParseExp(toks, l.i + 1)))
  ELSE l

ParseMul(toks, i) == ParseMulRest(toks, ParseExp(toks, i))

ParseAddRest(toks, l) ==
  IF l.ok /\ tokAt(toks, l.i) = "+"
  THEN ParseAddRest(toks, applied("+", l, ParseMul(toks, l.i + 1)))
  ELSE l

ParseAdd(toks, i) == ParseAddRest(toks, ParseMul(toks, i))

\* a ?? b: a number or a boolean is never nullish, so b is parsed and never
\* evaluated.
coalesced(l, r) == IF r.ok THEN PR(TRUE, r.i, l.t, l.v, "expr") ELSE SyntaxError

ParseCoalesceRest(toks, l) ==
  IF l.ok /\ tokAt(toks, l.i) = "??"
  THEN ParseCoalesceRest(toks, coalesced(l, ParseAdd(toks, l.i + 1)))
  ELSE l

ParseCoalesce(toks, i) == ParseCoalesceRest(toks, ParseAdd(toks, i))

\* c ? a : b evaluates only the chosen branch.
chosen(c, a, b) ==
  IF ~b.ok THEN SyntaxError
  ELSE IF c.t = "ref" THEN PR(TRUE, b.i, "ref", 0, "expr")
  ELSE IF truthy(c) THEN PR(TRUE, b.i, a.t, a.v, "expr")
  ELSE PR(TRUE, b.i, b.t, b.v, "expr")

\* The conditional after its condition c and its first branch a.
ParseElse(toks, c, a) ==
  IF a.ok /\ tokAt(toks, a.i) = ":"
  THEN chosen(c, a, ParseCond(toks, a.i + 1))
  ELSE SyntaxError

ParseCondRest(toks, c) ==
  IF c.ok /\ tokAt(toks, c.i) = "?"
  THEN ParseElse(toks, c, ParseCond(toks, c.i + 1))
  ELSE c

ParseCond(toks, i) == ParseCondRest(toks, ParseCoalesce(toks, i))

\* The value of the parse r of all of toks, or "throws" for a SyntaxError or a
\* ReferenceError.
returned_value(toks, r) ==
  IF r.ok /\ r.i = Len(toks) + 1 /\ r.t # "ref"
  THEN [t |-> r.t, v |-> r.v]
  ELSE [t |-> "throws", v |-> 0]

evaluate(toks) == returned_value(toks, ParseCond(toks, 1))

\* Function(`"use strict"; return (${query})`)()
evalFunction(query) == evaluate(Lex(query, 1))

\* ------------------------------------------------------------- mockSearch

\* const MATH_RE = /[+\-*/^%()]/ : the test is for one such character anywhere.
MATH_RE(s) == \E i \in 1..Len(s) : s[i] \in {"+", "-", "*", "/", "^", "%", "(", ")"}

RECURSIVE numberToString(_)
\* String(n) of a non-negative integer, as the template `= ${result}` prints it.
numberToString(n) ==
  LET d == <<"0", "1", "2", "3", "4", "5", "6", "7", "8", "9">>[(n % 10) + 1]
  IN IF n < 10 THEN <<d>> ELSE Append(numberToString(n \div 10), d)

\* typeof result === "number" alone, NaN included.
isNumber(query) == evalFunction(query).t \in {"num", "nan"}

\* typeof result === "number" && isFinite(result), for the value of the query
\* as an expression.
isFiniteNumber(query) == evalFunction(query).t = "num"

\* query.replace(/^ssh\s*/, "") of a query that starts with "ssh".
sshRemainder(query) == trimStart(slice(query, 3))

\* The branch of mockSearch that returns for a query, in the order of its if
\* statements, with the sub-query the branch computes.
Route(query) ==
  IF query = <<>> THEN [provider |-> "history", sub |-> <<>>]
  ELSE IF startsWith(query, <<"#">>)
  THEN [provider |-> "special", sub |-> toLowerCase(trim(slice(query, 1)))]
  ELSE IF startsWith(query, <<"?">>)
  THEN [provider |-> "chat", sub |-> trim(slice(query, 1))]
  ELSE IF startsWith(query, <<":">>)
  THEN [provider |-> "settings", sub |-> toLowerCase(trim(slice(query, 1)))]
  ELSE IF startsWith(query, <<SP>>)
  THEN LET q == trimStart(query)
       IN IF startsWith(q, <<"*">>)
          THEN [provider |-> "vector", sub |-> trim(slice(q, 1))]
          ELSE [provider |-> "file", sub |-> q]
  ELSE IF startsWith(query, <<"!">>)
  THEN [provider |-> "vault", sub |-> trim(slice(query, 1))]
  ELSE IF startsWith(query, <<"s", "s", "h", SP>>) \/ query = <<"s", "s", "h">>
  THEN [provider |-> "ssh", sub |-> sshRemainder(query)]
  ELSE IF MATH_RE(query) /\ isFiniteNumber(query)
  THEN [provider |-> "math", sub |-> query]
  ELSE [provider |-> "app", sub |-> toLowerCase(query)]

\* A SearchResult: id and name are a fixed text followed by text taken from
\* the query; description, icon and exec play no part in what the launcher
\* does with a result and are left out.
Result(idText, idArg, nameText, nameArg, category) ==
  [id |-> <<idText, idArg>>, name |-> <<nameText, nameArg>>,
   category |-> category, input_spec |-> FALSE]

\* The fixed settings table of the ":" branch.
settings == <<
    [id |-> "reindex", name |-> ":reindex", idText |-> <<"r", "e", "i", "n", "d", "e", "x">>,
     description |-> <<"R", "e", "i", "n", "d", "e", "x", " ", "a", "l", "l", " ", "f", "i", "l", "e", "s", " ", "(", "f", "u", "l", "l", " ", "r", "e", "b", "u", "i", "l", "d", ")">>],
    [id |-> "update", name |-> ":update", idText |-> <<"u", "p", "d", "a", "t", "e">>,
     description |-> <<"U", "p", "d", "a", "t", "e", " ", "i", "n", "d", "e", "x", " ", "(", "i", "n", "c", "r", "e", "m", "e", "n", "t", "a", "l", ")">>],
    [id |-> "config", name |-> ":config", idText |-> <<"c", "o", "n", "f", "i", "g">>,
     description |-> <<"O", "p", "e", "n", " ", "c", "o", "n", "f", "i", "g", " ", "f", "i", "l", "e">>],
    [id |-> "stats", name |-> ":stats", idText |-> <<"s", "t", "a", "t", "s">>,
     description |-> <<"I", "n", "d", "e", "x", " ", "s", "t", "a", "t", "i", "s", "t", "i", "c", "s">>],
    [id |-> "progress", name |-> ":progress", idText |-> <<"p", "r", "o", "g", "r", "e", "s", "s">>,
     description |-> <<"S", "h", "o", "w", " ", "i", "n", "d", "e", "x", "e", "r", " ", "p", "r", "o", "g", "r", "e", "s", "s">>],
    [id |-> "health", name |-> ":health", idText |-> <<"h", "e", "a", "l", "t", "h">>,
     description |-> <<"C", "h", "e", "c", "k", " ", "s", "y", "s", "t", "e", "m", " ", "h", "e", "a", "l", "t", "h", " ", "(", "O", "l", "l", "a", "m", "a", ",", " ", "D", "B", ",", " ", "A", "P", "I", " ", "k", "e", "y", ")">>]
  >>

\* The fixed application list of the last branch.
apps == <<
    [id |-> "firefox", label |-> "Firefox", name |-> <<"F", "i", "r", "e", "f", "o", "x">>],
    [id |-> "chromium", label |-> "Chromium", name |-> <<"C", "h", "r", "o", "m", "i", "u", "m">>],
    [id |-> "kitty", label |-> "Kitty", name |-> <<"K", "i", "t", "t", "y">>],
    [id |-> "code", label |-> "VS Code", name |-> <<"V", "S", " ", "C", "o", "d", "e">>],
    [id |-> "nautilus", label |-> "Files", name |-> <<"F", "i", "l", "e", "s">>]
  >>

cowork == <<"c", "o", "w", "o", "r", "k">>
devbox == <<"d", "e", "v", "b", "o", "x">>

\* The result list of the branch r of mockSearch.
branchResults(r, query) ==
  LET q == r.sub
  IN CASE r.provider = "history" ->
            << Result("firefox", <<>>, "Firefox", <<>>, "history"),
               Result("kitty", <<>>, "Kitty", <<>>, "history") >>
       [] r.provider = "special" ->
            IF q = <<>> \/ includes(cowork, q)
            THEN << Result("special-cowork", <<>>, "cowork", <<>>, "special") >>
            ELSE <<>>
       [] r.provider = "chat" ->
            IF q = <<>>
            THEN << Result("chat-hint", <<>>, "Type a question after ?", <<>>, "info") >>
            ELSE << Result("chat-ask", <<>>, "Ask: ", q, "chat") >>
       [] r.provider = "settings" ->
            LET keep(s) == \/ q = <<>>
                           \/ includes(s.idText, q)
                           \/ includes(<<":">> \o s.idText, q)
                           \/ includes(toLowerCase(s.description), q)
                kept == SelectSeq(settings, keep)
            IN [i \in 1..Len(kept) |->
                  Result(kept[i].id, <<>>, kept[i].name, <<>>, "action")]
       [] r.provider = "vector" ->
            IF q = <<>> THEN <<>>
            ELSE << Result("/home/user/docs/rust-guide.md", <<>>, "rust-guide.md", <<>>, "vector"),
                    Result("/home/user/notes/setup.txt", <<>>, "setup.txt", <<>>, "vector") >>
       [] r.provider = "file" ->
            IF q # <<>>
            THEN << Result("/home/user/Documents/.txt", q, ".txt", q, "file") >>
            ELSE <<>>
       [] r.provider = "vault" ->
            IF q = <<>> THEN <<>>
            ELSE << Result("op-", q, "", q, "onepass") >>
       [] r.provider = "ssh" ->
            IF q = <<>> \/ includes(devbox, q)
            THEN << Result("ssh-devbox", <<>>, "devbox", <<>>, "ssh") >>
            ELSE <<>>
       [] r.provider = "math" ->
            << Result("math-result", <<>>, "= ", numberToString(evalFunction(query).v), "math") >>
       [] OTHER ->
            LET keep(a) == includes(toLowerCase(a.name), q)
                kept == SelectSeq(apps, keep)
            IN [i \in 1..Len(kept) |-> Result(kept[i].id, <<>>, kept[i].label, <<>>, "app")]

\* mockSearch: the result list of a query.
mockSearch(query) == branchResults(Route(query), query)

\* ---------------------------------------------------------- parseModifier

Flags == [shift : BOOLEAN, ctrl : BOOLEAN, alt : BOOLEAN, altgr : BOOLEAN]

\* A parseModifier without the test for Shift and Ctrl together.
shiftOverCtrl(flags) ==
  IF flags.altgr THEN "altgr"
  ELSE IF flags.shift THEN "shift"
  ELSE IF flags.ctrl THEN "ctrl"
  ELSE IF flags.alt THEN "alt"
  ELSE "none"

\* parseModifier of types.ts.
parseModifier(flags) ==
  IF flags.altgr THEN "altgr"
  ELSE IF flags.shift /\ flags.ctrl THEN "shift_ctrl"
  ELSE IF flags.shift THEN "shift"
  ELSE IF flags.ctrl THEN "ctrl"
  ELSE IF flags.alt THEN "alt"
  ELSE "none"

\* ------------------------------------------------------ the launcher (App)

\* Calls of executeAction awaiting a backend command at once.
MaxInflight == 2

\* Launches the history ledger records in one behaviour.
MaxLaunches == 2

\* Queries the user types in one behaviour.
MaxTyped == 1

\* Times the window is hidden in one behaviour.
MaxHides == 1

\* The queries the user types: one per kind of result list.
Queries ==
  { <<>>,                        \* launch history
    <<"#">>,                     \* the special command, which has an input_spec
    <<"?">>,                     \* the chat hint (info)
    <<"?", "s">>,                \* a chat question
    <<":", "u", "p">>,           \* a settings action
    <<"1", "+", "1">> }          \* a math result

\* Enter pressed without modifier keys.
NoKeys == [shift |-> FALSE, ctrl |-> FALSE, alt |-> FALSE, altgr |-> FALSE]

\* The modifier keys the user holds with Enter: none, or Shift and Ctrl.
KeyFlags == { f \in Flags : ~f.alt /\ ~f.altgr /\ f.ctrl = f.shift }

\* What the user types as secondary input.
SecondaryInputs == { <<>>, <<"s">> }

\* Pointer positions of mousemove events.
Xs == {0, 12}
Ys == {0}

\* const THRESHOLD = 10 of the mousemove effect.
THRESHOLD == 10

VARIABLES
  query,           \* useState query
  results,         \* useState results
  selectedIndex,   \* useState selectedIndex
  notification,    \* useState notification: "" or the kind of message shown
  chatAnswer,      \* useState chatAnswer: "", "answer" or "error"
  chatLoading,     \* useState chatLoading
  secondaryMode,   \* useState secondaryMode: active, result (<<>> for null), previousQuery
  secondaryInput,  \* useState secondaryInput
  visibilityEpoch, \* useRef visibilityEpoch
  mouseState,      \* useRef mouseStateRef
  hidden,          \* document.hidden
  searchTimer,     \* the queries the debounce effect's pending setTimeout callbacks hold
  searches,        \* the queries of the search requests in flight
  notificationTimer, \* useRef notificationTimer: a timeout is pending
  dispatches,      \* the bag of executeAction calls awaiting a backend command
  history,         \* the history ledger's rows
  launches,        \* the ids of the record_launch commands the ledger served
  typed,           \* the queries the user has typed so far
  indexer,         \* the backend's IndexerState, its workers and its last reply
  store,           \* the embedding store's EmbeddingRecords
  health,          \* useState healthOk and the health checks in flight
  output,          \* the output view (OutputView) and the command it shows
  window,          \* the window's focus, the blur effect's timer, hide_window requests
  bridge           \* a call of the bridge's invoke: the server's answer, its position, its outcome

vars == << query, results, selectedIndex, notification, chatAnswer, chatLoading,
           secondaryMode, secondaryInput, visibilityEpoch, mouseState, hidden,
           searchTimer, searches, notificationTimer, dispatches,
           history, launches, typed, indexer, store, health, output, window, bridge >>

\* The variables of the launcher window.
appVars == << query, results, selectedIndex, notification, chatAnswer, chatLoading,
              secondaryMode, secondaryInput, visibilityEpoch, mouseState, hidden,
              searchTimer, searches, notificationTimer, dispatches,
              history, launches, typed, health, window >>

\* { active: false, result: null, previousQuery: "" }
NoSecondaryMode == [active |-> FALSE, result |-> <<>>, previousQuery |-> <<>>]

\* Search requests in flight at once.
MaxSearches == 2

\* Files an indexing run finds.
MaxFiles == 3

\* The paths of the files under the indexed directories and the content
\* hashes a file may have.
Paths == 1..MaxFiles
Hashes == {"h1", "h2"}

\* Health checks in flight at once.
MaxChecks == 2

\* What health_check answers: one flag per service.
Statuses == [ollama : BOOLEAN, vector_db : BOOLEAN, api_key : BOOLEAN]

AllHealthy == [ollama |-> TRUE, vector_db |-> TRUE, api_key |-> TRUE]

\* The launcher once mounted: healthOk is true and the first checkHealth()
\* awaits its answer. Of the check that completed last the model keeps
\* whether there is one, whether it failed, and the status it answered.
MountedHealth ==
  [ok |-> TRUE, pending |-> 1,
   last |-> [completed |-> FALSE, failed |-> FALSE, status |-> AllHealthy]]

\* No call of the bridge's invoke is modelled.
NoCall == [pc |-> "none", server |-> <<>>, outcome |-> <<>>]

\* hide_window requests awaited at once.
MaxHideRequests == 1

\* The window shown with the focus: the pending timeouts of the blur effect
\* and the hide_window requests awaited are none.
FocusedWindow == [focused |-> TRUE, blurTimer |-> 0, hideRequests |-> 0]

\* const MAX_LINES = 10_000
MAX_LINES == 10000

\* const MAX_CONSECUTIVE_ERRORS = 20
MAX_CONSECUTIVE_ERRORS == 20

\* The labels of the commands whose output is shown.
MaxLabels == 2
Labels == 1..MaxLabels

\* Lines a command writes.
MaxWritten == 2

\* get_output requests in flight at once.
MaxPolls == 2

\* Times the label of the output view changes.
MaxLabelChanges == 1

\* A command that has written nothing and runs; exit_code -1 stands for null.
Running == [total |-> 0, done |-> FALSE, exit_code |-> -1]

\* The output view mounted with a label: the state of useState and useRef
\* after the reset effect, the interval of the poll effect running. effect
\* counts the runs of the poll effect, whose closures each hold a stopped
\* flag and an interval; polling is the negation of the stopped flag of the
\* latest. polls are the get_output requests that await their answer, and
\* commands is what the backend holds of each label's command.
MountedOutput(label) ==
  [label |-> label, lines |-> <<>>, done |-> FALSE, exitCode |-> -1,
   pollError |-> 0, sinceIndex |-> 0, errorCount |-> 0,
   effect |-> 0, polling |-> TRUE, polls |-> EmptyBag,
   commands |-> [l \in Labels |-> Running]]

\* The launcher window mounts no output view.
ClosedOutput == [MountedOutput(0) EXCEPT !.polling = FALSE]

\* IndexerState Idle, with no worker running and no start request answered.
\* Of a run the indexer holds the files its walk has seen, the paths it is
\* done with, those it has requested an embedding for, those whose text
\* extraction failed, the records the store held when the run started, and
\* the state the indexer was in when the run's start request was accepted.
IdleIndexer ==
  [state |-> "Idle", mode |-> "none", files_seen |-> 0, files_total |-> 0,
   files_done |-> 0, workers |-> 0, reply |-> "none",
   seen |-> {}, done |-> {}, embedded |-> {}, failed |-> {}, before |-> {},
   after |-> "none"]

\* The backend's answer to invoke("search"): the lists of mockSearch, where
\* the special command carries the input_spec the launcher's secondary-input
\* mode is entered for.
withInputSpec(rs) ==
  [i \in 1..Len(rs) |->
     IF rs[i].category = "special" THEN [rs[i] EXCEPT !.input_spec = TRUE] ELSE rs[i]]

search(q) == withInputSpec(mockSearch(q))

Init ==
  /\ query = <<>>
  /\ results = <<>>
  /\ selectedIndex = 0
  /\ notification = ""
  /\ chatAnswer = ""
  /\ chatLoading = FALSE
  /\ secondaryMode = NoSecondaryMode
  /\ secondaryInput = <<>>
  /\ visibilityEpoch = 0
  /\ mouseState = [phase |-> "initial", x |-> 0, y |-> 0]
  /\ hidden = FALSE
  /\ searchTimer = {query}
  /\ searches = {<<>>}
  /\ notificationTimer = FALSE
  /\ dispatches = EmptyBag
  /\ history = {}
  /\ launches = <<>>
  /\ typed = 0
  /\ indexer = IdleIndexer
  /\ store = {}
  /\ health = MountedHealth
  /\ window = FocusedWindow
  /\ bridge = NoCall
  /\ output = ClosedOutput

\* An effect without its cleanup: the timers of the superseded queries stay.
setQueryKeepingTimers(q, answer) ==
  /\ query' = q
  /\ searchTimer' = IF q # query THEN searchTimer \cup {q} ELSE searchTimer
  /\ chatAnswer' = IF q # query THEN "" ELSE answer

\* setQuery(q) and, when the query changes, the effect that depends on it:
\* setChatAnswer("") and a new debounce timer in place of the pending one.
\* answer is the chat answer the handler itself leaves.
setQuery(q, answer) ==
  /\ query' = q
  /\ searchTimer' = IF q # query THEN {q} ELSE searchTimer
  /\ chatAnswer' = IF q # query THEN "" ELSE answer

\* doSearch up to its await: a search request for q is in flight.
doSearch(q) == searches' = searches \cup {q}

canSearch(q) == q \in searches \/ Cardinality(searches) < MaxSearches

\* onChange of the input outside secondary-input mode.
TypeQuery(q) ==
  /\ ~hidden /\ ~secondaryMode.active /\ q # query
  /\ typed < MaxTyped
  /\ typed' = typed + 1
  /\ setQuery(q, chatAnswer)
  /\ UNCHANGED << results, selectedIndex, notification, chatLoading, secondaryMode,
                  secondaryInput, visibilityEpoch, mouseState, hidden, searches,
                  notificationTimer, dispatches, history, launches, indexer, store, health, output, window, bridge >>

\* onChange of the input in secondary-input mode.
TypeSecondary(v) ==
  /\ ~hidden /\ secondaryMode.active /\ v # secondaryInput
  /\ secondaryInput' = v
  /\ UNCHANGED << query, results, selectedIndex, notification, chatAnswer, chatLoading,
                  secondaryMode, visibilityEpoch, mouseState, hidden, searchTimer,
                  searches, notificationTimer, dispatches, history, launches, typed, indexer, store, health, output, window, bridge >>

\* A debounce timer fires: doSearch(query) with the query of its closure.
SearchTimerFires ==
  /\ \E q \in searchTimer :
       /\ canSearch(q)
       /\ searchTimer' = searchTimer \ {q}
       /\ doSearch(q)
  /\ UNCHANGED << query, results, selectedIndex, notification, chatAnswer, chatLoading,
                  secondaryMode, secondaryInput, visibilityEpoch, mouseState, hidden, notificationTimer, dispatches, history, launches, typed, indexer, store, health, output, window, bridge >>

\* doSearch after its await: the request for q resolved.
SearchReturns(q) ==
  /\ q \in searches
  /\ searches' = searches \ {q}
  /\ results' = search(q)
  /\ selectedIndex' = 0
  /\ UNCHANGED << query, notification, chatAnswer, chatLoading, secondaryMode,
                  secondaryInput, visibilityEpoch, mouseState, hidden, searchTimer, notificationTimer, dispatches, history, launches, typed, indexer, store, health, output, window, bridge >>

\* A catch that leaves the results as they are.
SearchFailsSilently(q) ==
  /\ q \in searches
  /\ searches' = searches \ {q}
  /\ UNCHANGED << query, results, selectedIndex, notification, chatAnswer, chatLoading,
                  secondaryMode, secondaryInput, visibilityEpoch, mouseState, hidden,
                  searchTimer, notificationTimer, dispatches, history, launches, typed,
                  indexer, store, health, output, window, bridge >>

\* doSearch after its await: the request for q was rejected.
SearchFails(q) ==
  /\ q \in searches
  /\ searches' = searches \ {q}
  /\ results' = <<>>
  /\ UNCHANGED << query, selectedIndex, notification, chatAnswer, chatLoading,
                  secondaryMode, secondaryInput, visibilityEpoch, mouseState, hidden,
                  searchTimer, notificationTimer, dispatches, history, launches, typed, indexer, store, health, output, window, bridge >>

Min(a, b) == IF a < b THEN a ELSE b
Max(a, b) == IF a > b THEN a ELSE b

\* An ArrowDown that moves the selection in secondary-input mode too.
ArrowDownAlways ==
  /\ ~hidden
  /\ selectedIndex' = Min(selectedIndex + 1, Len(results) - 1)
  /\ UNCHANGED << query, results, notification, chatAnswer, chatLoading, secondaryMode,
                  secondaryInput, visibilityEpoch, mouseState, hidden, searchTimer,
                  searches, notificationTimer, dispatches, history, launches, typed,
                  indexer, store, health, output, window, bridge >>

\* handleKeyDown, case "ArrowDown".
ArrowDown ==
  /\ ~hidden
  /\ selectedIndex' = IF ~secondaryMode.active
                      THEN Min(selectedIndex + 1, Len(results) - 1)
                      ELSE selectedIndex
  /\ UNCHANGED << query, results, notification, chatAnswer, chatLoading, secondaryMode,
                  secondaryInput, visibilityEpoch, mouseState, hidden, searchTimer,
                  searches, notificationTimer, dispatches, history, launches, typed, indexer, store, health, output, window, bridge >>

\* handleKeyDown, case "ArrowUp".
ArrowUp ==
  /\ ~hidden
  /\ selectedIndex' = IF ~secondaryMode.active
                      THEN Max(selectedIndex - 1, 0)
                      ELSE selectedIndex
  /\ UNCHANGED << query, results, notification, chatAnswer, chatLoading, secondaryMode,
                  secondaryInput, visibilityEpoch, mouseState, hidden, searchTimer,
                  searches, notificationTimer, dispatches, history, launches, typed, indexer, store, health, output, window, bridge >>

\* ----------------------------------------------------------- executeAction

\* An executeAction that acts on the selected entry of the list in
\* secondary-input mode too.
selectedItem(itemOverride) ==
  IF itemOverride # <<>> THEN itemOverride
  ELSE IF selectedIndex + 1 \in DOMAIN results THEN <<results[selectedIndex + 1]>>
  ELSE <<>>

\* The item executeAction acts on: the stored result in secondary-input
\* mode, else the clicked item, else results[selectedIndex]; <<>> when there
\* is none.
actionItem(itemOverride) ==
  IF secondaryMode.active THEN secondaryMode.result
  ELSE IF itemOverride # <<>> THEN itemOverride
  ELSE IF selectedIndex + 1 \in DOMAIN results THEN <<results[selectedIndex + 1]>>
  ELSE <<>>

\* executeAction without the input_spec check: every result is dispatched at
\* once.
skipsSecondaryMode(item) == FALSE

\* if (item.input_spec && !secondaryMode.active)
entersSecondaryMode(item) == item.input_spec /\ ~secondaryMode.active

\* Secondary-input mode entered without keeping the query.
enteredWithoutQuery(item) == [active |-> TRUE, result |-> <<item>>, previousQuery |-> <<>>]

\* The state entered for a result with an input_spec.
enteredMode(item) == [active |-> TRUE, result |-> <<item>>, previousQuery |-> query]

\* executeAction that passes no secondary input to the command.
noSecondaryInput == <<>>

\* const currentSecondaryInput = secondaryMode.active ? secondaryInput : undefined
\* (<<>> for undefined, <<v>> for the string v).
currentSecondaryInput == IF secondaryMode.active THEN <<secondaryInput>> ELSE <<>>

\* executeAction that records every category.
recordsEvery(category) == TRUE

\* !["math", "info"].includes(item.category)
recordsLaunch(category) == category \notin {"math", "info"}

\* executeAction without its history write: execute_action is invoked first.
executesFirst(category) ==
  IF category = "chat" THEN "chat_ask"
  ELSE IF category = "action" THEN "run_setting"
  ELSE "execute_action"

\* The first backend command executeAction invokes for a category.
firstCommand(category) ==
  IF category = "chat" THEN "chat_ask"
  ELSE IF category = "action" THEN "run_setting"
  ELSE IF recordsLaunch(category) THEN "record_launch"
  ELSE "execute_action"

\* A call that asks the AI whatever the result's category is.
asksAlways(item, modifier, secondary, first) ==
  [item |-> item, modifier |-> "none", secondaryInput |-> <<>>,
   query |-> query, epoch |-> visibilityEpoch,
   pc |-> "chat_ask", calls |-> <<"chat_ask">>]

\* One call of executeAction on a result, at an await: the result, the
\* modifier and the secondary input it passes to execute_action, the query
\* and the visibility epoch chat_ask has captured, the command it awaits (pc)
\* and the commands it has invoked so far. A variable the rest of the call
\* never reads holds its initial value.
Dispatch(item, modifier, secondary, first) ==
  [item |-> item,
   modifier |-> IF first \in {"chat_ask", "run_setting"} THEN "none" ELSE modifier,
   secondaryInput |-> IF first \in {"chat_ask", "run_setting"} THEN <<>> ELSE secondary,
   query |-> IF first = "chat_ask" THEN query ELSE <<>>,
   epoch |-> IF first = "chat_ask" THEN visibilityEpoch ELSE 0,
   pc |-> first, calls |-> <<first>>]

\* The record_launch commands in flight.
recording ==
  LET ds == {d \in BagToSet(dispatches) : d.pc = "record_launch"}
  IN BagCardinality([d \in ds |-> dispatches[d]])

\* executeAction up to its first await. e is <<>> for a click (null) or
\* <<flags>> for a key event.
executeAction(e, itemOverride) ==
  LET it == actionItem(itemOverride)
  IN IF it = <<>>
     THEN UNCHANGED vars
     ELSE LET item == it[1] IN
       IF entersSecondaryMode(item)
       THEN /\ secondaryMode' = enteredMode(item)
            /\ setQuery(<<>>, chatAnswer)
            /\ secondaryInput' = <<>>
            /\ UNCHANGED << results, selectedIndex, notification, chatLoading,
                            visibilityEpoch, mouseState, hidden, searches,
                            notificationTimer, dispatches, history, launches, typed, indexer, store, health, output, window, bridge >>
       ELSE LET modifier == IF e # <<>> THEN parseModifier(e[1]) ELSE "none"
                first == firstCommand(item.category)
            IN /\ BagCardinality(dispatches) < MaxInflight
               /\ first = "record_launch" => Len(launches) + recording < MaxLaunches
               /\ secondaryMode' = IF secondaryMode.active THEN NoSecondaryMode
                                   ELSE secondaryMode
               /\ secondaryInput' = IF secondaryMode.active THEN <<>> ELSE secondaryInput
               /\ chatLoading' = IF first = "chat_ask" THEN TRUE ELSE chatLoading
               /\ chatAnswer' = IF first = "chat_ask" THEN "" ELSE chatAnswer
               /\ notification' = IF first = "run_setting" THEN "running" ELSE notification
               /\ dispatches' = dispatches (+)
                    SetToBag({Dispatch(item, modifier, currentSecondaryInput, first)})
               /\ UNCHANGED << query, results, selectedIndex, visibilityEpoch, mouseState,
                               hidden, searchTimer, searches,
                               notificationTimer, history, launches, typed, indexer, store, health, output, window, bridge >>

\* handleKeyDown, case "Enter".
Enter(flags) ==
  /\ ~hidden
  /\ executeAction(<<flags>>, <<>>)

\* onClick of a result of the list, which is rendered outside secondary-input
\* mode only.
Click(i) ==
  /\ ~hidden /\ ~secondaryMode.active /\ i \in DOMAIN results
  /\ executeAction(<<>>, <<results[i]>>)

\* A handler that asks the backend twice to hide the window.
invokeTwice(w) == [w EXCEPT !.hideRequests = @ + 2]

\* invoke("hide_window"): one more request is awaited.
invokeHideWindow(w) == [w EXCEPT !.hideRequests = @ + 1]

\* An Escape that leaves the text of the secondary input in place.
EscapeKeepsInput ==
  /\ ~hidden
  /\ IF secondaryMode.active
     THEN /\ canSearch(secondaryMode.previousQuery)
          /\ secondaryMode' = NoSecondaryMode
          /\ secondaryInput' = secondaryInput
          /\ setQuery(secondaryMode.previousQuery, chatAnswer)
          /\ doSearch(secondaryMode.previousQuery)
          /\ window' = window
     ELSE /\ window.hideRequests < MaxHideRequests /\ visibilityEpoch < MaxHides
          /\ window' = invokeHideWindow(window)
          /\ UNCHANGED << query, chatAnswer, searchTimer, secondaryMode, secondaryInput,
                          searches >>
  /\ UNCHANGED << results, selectedIndex, notification, chatLoading, visibilityEpoch,
                  mouseState, hidden, notificationTimer, dispatches, history, launches,
                  typed, indexer, store, health, output, bridge >>

\* handleKeyDown, case "Escape".
Escape ==
  /\ ~hidden
  /\ IF secondaryMode.active
     THEN /\ canSearch(secondaryMode.previousQuery)
          /\ secondaryMode' = NoSecondaryMode
          /\ secondaryInput' = <<>>
          /\ setQuery(secondaryMode.previousQuery, chatAnswer)
          /\ doSearch(secondaryMode.previousQuery)
          /\ window' = window
     ELSE \* invoke("hide_window"), which the backend serves later (Hide);
          \* requests are made as long as the hide they ask for is within
          \* the bound
          /\ window.hideRequests < MaxHideRequests /\ visibilityEpoch < MaxHides
          /\ window' = invokeHideWindow(window)
          /\ UNCHANGED << query, chatAnswer, searchTimer, secondaryMode, secondaryInput,
                          searches >>
  /\ UNCHANGED << results, selectedIndex, notification, chatLoading, visibilityEpoch,
                  mouseState, hidden, notificationTimer, dispatches, history, launches,
                  typed, indexer, store, health, output, bridge >>

\* ------------------------------------------------------ window visibility

\* The handler without its setChatLoading(false).
keepsChatLoading ==
  /\ visibilityEpoch' = visibilityEpoch + 1
  /\ setQuery(<<>>, "")
  /\ selectedIndex' = 0
  /\ chatLoading' = chatLoading
  /\ secondaryMode' = NoSecondaryMode
  /\ secondaryInput' = <<>>
  /\ mouseState' = [phase |-> "initial", x |-> 0, y |-> 0]

\* onVisibilityChange with document.hidden: the session state is cleared.
onVisibilityChange ==
  /\ visibilityEpoch' = visibilityEpoch + 1
  /\ setQuery(<<>>, "")
  /\ selectedIndex' = 0
  /\ chatLoading' = FALSE
  /\ secondaryMode' = NoSecondaryMode
  /\ secondaryInput' = <<>>
  /\ mouseState' = [phase |-> "initial", x |-> 0, y |-> 0]

\* The window is hidden (by a served hide_window request, which is awaited
\* no longer, or by the window manager) and the visibilitychange event is
\* handled.
Hide ==
  /\ ~hidden /\ visibilityEpoch < MaxHides
  /\ hidden' = TRUE
  /\ onVisibilityChange
  /\ window' = [window EXCEPT !.hideRequests = Max(@ - 1, 0)]
  /\ UNCHANGED << results, notification, searches, notificationTimer, dispatches,
                  history, launches, typed, indexer, store, health, output, bridge >>

\* invoke("hide_window") is rejected: the catch logs the error.
HideWindowFails ==
  /\ window.hideRequests > 0
  /\ window' = [window EXCEPT !.hideRequests = @ - 1]
  /\ UNCHANGED << query, results, selectedIndex, notification, chatAnswer, chatLoading,
                  secondaryMode, secondaryInput, visibilityEpoch, mouseState, hidden,
                  searchTimer, searches, notificationTimer, dispatches,
                  history, launches, typed, indexer, store, health, output, bridge >>

\* ------------------------------------------------------------ hide on blur

\* What the window leaves alone when only its focus and its timer change.
blurFrame ==
  UNCHANGED << query, results, selectedIndex, notification, chatAnswer, chatLoading,
               secondaryMode, secondaryInput, visibilityEpoch, mouseState, hidden,
               searchTimer, searches, notificationTimer, dispatches,
               history, launches, typed, indexer, store, health, output, bridge >>

\* onBlur: the pending timeout, if any, is cleared and a new one is set.
Blur ==
  /\ window.focused
  /\ window' = [window EXCEPT !.focused = FALSE, !.blurTimer = 1]
  /\ blurFrame

\* An onFocus that leaves the pending timeout running.
FocusKeepsTimer ==
  /\ ~window.focused
  /\ window' = [window EXCEPT !.focused = TRUE]
  /\ blurFrame

\* onFocus: the pending timeout, if any, is cleared.
Focus ==
  /\ ~window.focused
  /\ window' = [window EXCEPT !.focused = TRUE, !.blurTimer = 0]
  /\ blurFrame

\* The timeout of onBlur fires after its 150 ms: timer = null and
\* invoke("hide_window").
BlurTimerFires ==
  /\ window.blurTimer > 0 /\ window.hideRequests < MaxHideRequests
  /\ window' = invokeHideWindow([window EXCEPT !.blurTimer = @ - 1])
  /\ blurFrame

\* The window is shown again: the visibilitychange handler does nothing.
Show ==
  /\ hidden
  /\ hidden' = FALSE
  /\ UNCHANGED << query, results, selectedIndex, notification, chatAnswer, chatLoading,
                  secondaryMode, secondaryInput, visibilityEpoch, mouseState,
                  searchTimer, searches, notificationTimer, dispatches,
                  history, launches, typed, indexer, store, health, output, window, bridge >>

\* onMouseMove.
MouseMove(x, y) ==
  /\ ~hidden
  /\ mouseState' =
       IF mouseState.phase = "enabled" THEN mouseState
       ELSE IF mouseState.phase = "initial" THEN [phase |-> "tracking", x |-> x, y |-> y]
       ELSE LET dx == x - mouseState.x
                dy == y - mouseState.y
            IN IF dx * dx + dy * dy > THRESHOLD * THRESHOLD
               THEN [phase |-> "enabled", x |-> 0, y |-> 0]
               ELSE mouseState
  /\ UNCHANGED << query, results, selectedIndex, notification, chatAnswer, chatLoading,
                  secondaryMode, secondaryInput, visibilityEpoch, hidden, searchTimer,
                  searches, notificationTimer, dispatches, history, launches, typed, indexer, store, health, output, window, bridge >>

\* An onMouseEnter that selects the result in every phase.
MouseEnterAlways(i) ==
  /\ ~hidden /\ ~secondaryMode.active /\ i \in DOMAIN results
  /\ selectedIndex' = i - 1
  /\ UNCHANGED << query, results, notification, chatAnswer, chatLoading, secondaryMode,
                  secondaryInput, visibilityEpoch, mouseState, hidden, searchTimer,
                  searches, notificationTimer, dispatches, history, launches, typed,
                  indexer, store, health, output, window, bridge >>

\* onMouseEnter of a result of the list.
MouseEnter(i) ==
  /\ ~hidden /\ ~secondaryMode.active /\ i \in DOMAIN results
  /\ selectedIndex' = IF mouseState.phase = "enabled" THEN i - 1 ELSE selectedIndex
  /\ UNCHANGED << query, results, notification, chatAnswer, chatLoading, secondaryMode,
                  secondaryInput, visibilityEpoch, mouseState, hidden, searchTimer,
                  searches, notificationTimer, dispatches, history, launches, typed, indexer, store, health, output, window, bridge >>

\* --------------------------------------------------------- the health check

\* A health that needs the API key as well.
withApiKey(status) == status.ollama /\ status.vector_db /\ status.api_key

\* status.ollama && status.vector_db
healthy(status) == status.ollama /\ status.vector_db

\* {!healthOk && !secondaryMode.active && <span className="health-indicator">}
healthIndicator == ~health.ok /\ ~secondaryMode.active

\* The 30 s interval fires: checkHealth() up to its await.
HealthInterval ==
  /\ health.pending < MaxChecks
  /\ health' = [health EXCEPT !.pending = @ + 1]
  /\ UNCHANGED << query, results, selectedIndex, notification, chatAnswer, chatLoading,
                  secondaryMode, secondaryInput, visibilityEpoch, mouseState, hidden,
                  searchTimer, searches, notificationTimer, dispatches, history,
                  launches, typed, indexer, store, output, window, bridge >>

\* checkHealth after its await: health_check answered status.
HealthCheckReturns(status) ==
  /\ health.pending > 0
  /\ health' = [ok |-> healthy(status), pending |-> health.pending - 1,
                last |-> [completed |-> TRUE, failed |-> FALSE, status |-> status]]
  /\ UNCHANGED << query, results, selectedIndex, notification, chatAnswer, chatLoading,
                  secondaryMode, secondaryInput, visibilityEpoch, mouseState, hidden,
                  searchTimer, searches, notificationTimer, dispatches, history,
                  launches, typed, indexer, store, output, window, bridge >>

\* checkHealth after its await: health_check was rejected.
HealthCheckFails ==
  /\ health.pending > 0
  /\ health' = [ok |-> FALSE, pending |-> health.pending - 1,
                last |-> [completed |-> TRUE, failed |-> TRUE, status |-> AllHealthy]]
  /\ UNCHANGED << query, results, selectedIndex, notification, chatAnswer, chatLoading,
                  secondaryMode, secondaryInput, visibilityEpoch, mouseState, hidden,
                  searchTimer, searches, notificationTimer, dispatches, history,
                  launches, typed, indexer, store, output, window, bridge >>

\* onClick of the health indicator: setQuery(":health").
ClickHealthIndicator ==
  /\ ~hidden /\ healthIndicator
  /\ setQuery(<<":", "h", "e", "a", "l", "t", "h">>, chatAnswer)
  /\ UNCHANGED << results, selectedIndex, notification, chatLoading, secondaryMode,
                  secondaryInput, visibilityEpoch, mouseState, hidden, searches,
                  notificationTimer, dispatches, history, launches, typed, indexer,
                  store, health, output, window, bridge >>

\* ------------------------------------------------------ the history ledger

\* The time of the next launch: later than every recorded launch.
now ==
  LET times == {r.last_launched_at : r \in history}
  IN IF times = {} THEN 1 ELSE 1 + CHOOSE t \in times : \A u \in times : u <= t

\* A ledger that inserts a row for every launch.
insert_launch(item) ==
  history \cup {[id |-> item.id, launch_count |-> 1, last_launched_at |-> now]}

\* record_launch: the upsert of the row of the launched id.
record_launch(item) ==
  IF \E r \in history : r.id = item.id
  THEN { IF r.id = item.id
         THEN [r EXCEPT !.launch_count = @ + 1, !.last_launched_at = now]
         ELSE r : r \in history }
  ELSE history \cup {[id |-> item.id, launch_count |-> 1, last_launched_at |-> now]}

\* ------------------------------------------- executeAction after an await

awaiting(d, cmd) == BagIn(d, dispatches) /\ d.pc = cmd

\* The calls in flight once call d has returned.
returned(d) == dispatches (-) SetToBag({d})

\* A continuation that looks at document.hidden only, not at the epoch.
ChatAskReturnsWhileShown(d, ok) ==
  /\ awaiting(d, "chat_ask")
  /\ chatAnswer' = IF hidden THEN chatAnswer ELSE IF ok THEN "answer" ELSE "error"
  /\ chatLoading' = IF hidden THEN chatLoading ELSE FALSE
  /\ dispatches' = returned(d)
  /\ UNCHANGED << query, results, selectedIndex, notification, secondaryMode,
                  secondaryInput, visibilityEpoch, mouseState, hidden, searchTimer,
                  searches, notificationTimer, history, launches, typed, indexer,
                  store, health, output, window, bridge >>

\* await invoke("chat_ask") settles: the answer or the error is shown unless
\* the window was hidden since the request.
ChatAskReturns(d, ok) ==
  /\ awaiting(d, "chat_ask")
  /\ LET stale == visibilityEpoch # d.epoch \/ hidden
     IN /\ chatAnswer' = IF stale THEN chatAnswer
                         ELSE IF ok THEN "answer" ELSE "error"
        /\ chatLoading' = IF stale THEN chatLoading ELSE FALSE
  /\ dispatches' = returned(d)
  /\ UNCHANGED << query, results, selectedIndex, notification, secondaryMode,
                  secondaryInput, visibilityEpoch, mouseState, hidden, searchTimer,
                  searches, notificationTimer, history, launches, typed, indexer, store, health, output, window, bridge >>

\* A settings branch without its return: execute_action is invoked next.
RunSettingThenExecutes(d, ok) ==
  /\ awaiting(d, "run_setting")
  /\ notification' = IF ok THEN "message" ELSE "error"
  /\ notificationTimer' = TRUE
  /\ dispatches' = returned(d) (+) SetToBag({
       [d EXCEPT !.pc = "execute_action", !.calls = Append(@, "execute_action")]})
  /\ UNCHANGED << query, results, selectedIndex, chatAnswer, chatLoading, secondaryMode,
                  secondaryInput, visibilityEpoch, mouseState, hidden, searchTimer,
                  searches, history, launches, typed, indexer, store, health, output,
                  window, bridge >>

\* await invoke("run_setting") settles: the message or the error is shown
\* and the notification's timeout is started anew.
RunSettingReturns(d, ok) ==
  /\ awaiting(d, "run_setting")
  /\ notification' = IF ok THEN "message" ELSE "error"
  /\ notificationTimer' = TRUE
  /\ dispatches' = returned(d)
  /\ UNCHANGED << query, results, selectedIndex, chatAnswer, chatLoading, secondaryMode,
                  secondaryInput, visibilityEpoch, mouseState, hidden, searchTimer,
                  searches, history, launches, typed, indexer, store, health, output, window, bridge >>

\* The call once its record_launch has settled: whether it succeeded or was
\* caught, execute_action is invoked next.
afterRecordLaunch(d) ==
  [d EXCEPT !.pc = "execute_action", !.calls = Append(@, "execute_action")]

\* await invoke("record_launch") settles: the ledger has written the row
\* (ok) or failed; executeAction goes on to invoke execute_action.
RecordLaunchReturns(d, ok) ==
  /\ awaiting(d, "record_launch")
  /\ history' = IF ok THEN record_launch(d.item) ELSE history
  /\ launches' = IF ok THEN Append(launches, d.item.id) ELSE launches
  /\ dispatches' = returned(d) (+) SetToBag({afterRecordLaunch(d)})
  /\ UNCHANGED << query, results, selectedIndex, notification, chatAnswer, chatLoading,
                  secondaryMode, secondaryInput, visibilityEpoch, mouseState, hidden,
                  searchTimer, searches, notificationTimer, typed, indexer, store, health, output, window, bridge >>

\* await invoke("execute_action") settles: a failure is shown as a
\* notification with a timeout.
ExecuteActionReturns(d, ok) ==
  /\ awaiting(d, "execute_action")
  /\ notification' = IF ok THEN notification ELSE "failed"
  /\ notificationTimer' = IF ok THEN notificationTimer ELSE TRUE
  /\ dispatches' = returned(d)
  /\ UNCHANGED << query, results, selectedIndex, chatAnswer, chatLoading, secondaryMode,
                  secondaryInput, visibilityEpoch, mouseState, hidden, searchTimer,
                  searches, history, launches, typed, indexer, store, health, output, window, bridge >>

\* The notification's timeout fires: setNotification("").
NotificationTimerFires ==
  /\ notificationTimer
  /\ notificationTimer' = FALSE
  /\ notification' = ""
  /\ UNCHANGED << query, results, selectedIndex, chatAnswer, chatLoading, secondaryMode,
                  secondaryInput, visibilityEpoch, mouseState, hidden, searchTimer,
                  searches, dispatches, history, launches, typed, indexer, store, health, output, window, bridge >>

\* ------------------------------------------------- the indexer pipeline

\* Single-flight that guards the walk only.
scanning == indexer.state = "Scanning"

\* A run is active: Scanning or Embedding.
busy == indexer.state \in {"Scanning", "Embedding"}

\* The indexer once a start request for a run of the given mode is accepted.
started(mode) ==
  [state |-> "Scanning", mode |-> mode, files_seen |-> 0, files_total |-> 0,
   files_done |-> 0, workers |-> indexer.workers + 1, reply |-> "accepted",
   seen |-> {}, done |-> {}, embedded |-> {}, failed |-> {}, before |-> store,
   after |-> indexer.state]

\* A start request that is accepted in Idle only: a finished run whose
\* summary was not observed locks out the next.
StartWhenIdle(mode) ==
  /\ indexer' = IF indexer.state # "Idle" THEN [indexer EXCEPT !.reply = "rejected"]
                ELSE started(mode)
  /\ store' = IF indexer.state = "Idle" /\ mode = "full" THEN {} ELSE store
  /\ UNCHANGED << appVars, output, bridge >>

\* A full-reindex or incremental-update start request: rejected while a run
\* is active, never queued. A full reindex clears the records.
StartRequest(mode) ==
  /\ indexer' = IF busy THEN [indexer EXCEPT !.reply = "rejected"] ELSE started(mode)
  /\ store' = IF ~busy /\ mode = "full" THEN {} ELSE store
  /\ UNCHANGED << appVars, output, bridge >>

\* The walk of the directories finds one more file.
ScanFile(f) ==
  /\ indexer.state = "Scanning" /\ indexer.files_seen < MaxFiles
  /\ \A g \in indexer.seen : g.path # f.path
  /\ indexer' = [indexer EXCEPT !.files_seen = @ + 1, !.seen = @ \cup {f}]
  /\ UNCHANGED << appVars, store, output, bridge >>

\* The walk is over: the files seen are the files to embed.
ScanDone ==
  /\ indexer.state = "Scanning"
  /\ indexer' = [indexer EXCEPT !.state = "Embedding", !.files_total = indexer.files_seen]
  /\ UNCHANGED << appVars, store, output, bridge >>

\* The EmbeddingRecord of file f: its vector is that of the text with the
\* file's content hash.
embedding(f) == [path |-> f.path, hash |-> f.hash, vector |-> f.hash]

\* An EmbeddingRecord with the same path and hash already exists.
recorded(f) == \E r \in store : r.path = f.path /\ r.hash = f.hash

\* A store that adds the record and keeps the old one.
inserted(f) == store \cup {embedding(f)}

\* The store once the record of f is upserted: the record of the path is
\* replaced.
upsert(f) == {r \in store : r.path # f.path} \cup {embedding(f)}

\* One more file is done: skipped by an incremental update when its record
\* exists, else embedded and its record upserted, or skipped when its text
\* can not be extracted.
EmbedFile(f, extracted) ==
  /\ indexer.state = "Embedding" /\ indexer.files_done < indexer.files_total
  /\ f \in indexer.seen /\ f.path \notin indexer.done
  /\ IF indexer.mode = "incremental" /\ recorded(f)
     THEN /\ indexer' = [indexer EXCEPT !.files_done = @ + 1, !.done = @ \cup {f.path}]
          /\ store' = store
     ELSE IF extracted
     THEN /\ indexer' = [indexer EXCEPT !.files_done = @ + 1, !.done = @ \cup {f.path},
                                        !.embedded = @ \cup {f.path}]
          /\ store' = upsert(f)
     ELSE /\ indexer' = [indexer EXCEPT !.files_done = @ + 1, !.done = @ \cup {f.path},
                                        !.failed = @ \cup {f.path}]
          /\ store' = store
  /\ UNCHANGED << appVars, output, bridge >>

\* Every file is done: the records of files that are no longer present are
\* deleted, the run ends Done and its worker stops.
RunDone ==
  /\ indexer.state = "Embedding" /\ indexer.files_done = indexer.files_total
  /\ indexer' = [indexer EXCEPT !.state = "Done", !.workers = @ - 1]
  /\ store' = {r \in store : \E f \in indexer.seen : f.path = r.path}
  /\ UNCHANGED << appVars, output, bridge >>

\* Going on is meaningless: the run ends Failed and its worker stops.
RunFailed ==
  /\ busy
  /\ indexer' = [indexer EXCEPT !.state = "Failed", !.workers = @ - 1]
  /\ UNCHANGED << appVars, store, output, bridge >>

\* The summary of a finished run is observed: the indexer is Idle again.
SummaryObserved ==
  /\ indexer.state \in {"Done", "Failed"}
  /\ indexer' = [IdleIndexer EXCEPT !.reply = indexer.reply]
  /\ UNCHANGED << appVars, store, output, bridge >>

\* ------------------------------------------- history ranking (the backend)

\* The ids the ledgers of the ranking specification hold: two installed
\* applications and the special command.
LedgerIds == << <<"firefox", <<>>>>, <<"kitty", <<>>>>, <<"special-cowork", <<>>>> >>

\* Launches of one id and the latest launch time in such a ledger, and the
\* entries of the application table that may be installed.
MaxInstalled == 3
MaxCount == 2
MaxTime == 3

\* history.max_results: the configured maximum of history results.
max_results == 2

\* The interval after which the weight of a launch halves, and the number of
\* halvings after which it stays.
HalfLife == 2
Halvings == 4

\* decay(elapsed), scaled by 2^Halvings: halves every HalfLife.
decay(elapsed) == Pow(2, Halvings - Min(Halvings, elapsed \div HalfLife))

\* score = launch_count * decay(now - last_launched_at)
score(r) == r.launch_count * decay(now - r.last_launched_at)

\* The place of an id in the order that breaks the last ties.
idRank(id) == CHOOSE k \in 1..Len(LedgerIds) : LedgerIds[k] = id

\* The order scores alone give, ties broken by id.
byScoreOnly(r, s) ==
  \/ score(r) > score(s)
  \/ score(r) = score(s) /\ idRank(r.id) < idRank(s.id)

\* Row r ranks before row s: by score, then the more recent launch, then id.
ranksBefore(r, s) ==
  \/ score(r) > score(s)
  \/ /\ score(r) = score(s)
     /\ \/ r.last_launched_at > s.last_launched_at
        \/ r.last_launched_at = s.last_launched_at /\ idRank(r.id) < idRank(s.id)

\* The rows of the ledger that rank before row r.
ahead(r) == {s \in history : ranksBefore(s, r)}

\* The history results: the rows in rank order, truncated to max_results.
frecent ==
  [k \in 1..Min(max_results, Cardinality(history)) |->
     CHOOSE r \in history : Cardinality(ahead(r)) = k - 1]

\* The rank of a character in the alphabetical order: the letters without
\* regard to case, every other character before them.
charRank(c) ==
  IF \E i \in 1..26 : LowerCase[i] = lowerChar(c)
  THEN CHOOSE i \in 1..26 : LowerCase[i] = lowerChar(c)
  ELSE 0

RECURSIVE precedes(_, _)
\* Name s comes before name t in alphabetical order.
precedes(s, t) ==
  IF t = <<>> THEN FALSE
  ELSE IF s = <<>> THEN TRUE
  ELSE IF charRank(s[1]) # charRank(t[1]) THEN charRank(s[1]) < charRank(t[1])
  ELSE precedes(Tail(s), Tail(t))

\* The lists of installed applications the App provider may have cached:
\* entries of the application table, by their place in it.
InstalledLists == SUBSET (1..MaxInstalled)

\* The result of a row of the ledger.
historyResult(r) ==
  [id |-> r.id, name |-> r.id, category |-> "history", input_spec |-> FALSE]

\* The result of an installed application.
appResult(a) == Result(a.id, <<>>, a.label, <<>>, "app")

\* The ids of the rows of a list.
shown(rows) == {rows[k].id : k \in 1..Len(rows)}

\* The merge that lists every installed application.
everyInstalled(installed, ids) == installed

\* The installed applications whose ids are not among ids, those shown as
\* history results.
remaining(installed, ids) == {i \in installed : <<apps[i].id, <<>>>> \notin ids}

\* The applications rest in alphabetical order of their names.
alphabetical(rest) ==
  [k \in 1..Cardinality(rest) |->
     appResult(apps[CHOOSE i \in rest :
       Cardinality({j \in rest : precedes(apps[j].name, apps[i].name)}) = k - 1])]

\* History results first, in their order, then the remaining installed
\* applications.
merged(rows, installed) ==
  [k \in 1..Len(rows) |-> historyResult(rows[k])]
    \o alphabetical(remaining(installed, shown(rows)))

\* The results of the empty query.
emptyQueryResults(installed) == merged(frecent, installed)

\* The ledgers of the ranking specification: at most one row per id, every
\* launch count up to MaxCount and every launch time up to MaxTime (two
\* launches within one tick of the clock have the same time).
Ledgers ==
  { {[id |-> LedgerIds[k], launch_count |-> f[k][1], last_launched_at |-> f[k][2]] : k \in S} :
      S \in SUBSET (1..Len(LedgerIds)),
      f \in [1..Len(LedgerIds) -> (1..MaxCount) \X (1..MaxTime)] }

\* The launches a ledger has recorded, id by id.
launchesOf(h) ==
  LET of(k) == IF \E r \in h : r.id = LedgerIds[k]
               THEN [j \in 1..(CHOOSE r \in h : r.id = LedgerIds[k]).launch_count |->
                       LedgerIds[k]]
               ELSE <<>>
  IN of(1) \o of(2) \o of(3)

\* The launcher at its start over a ledger that has recorded launches.
InitLedger ==
  /\ query = <<>>
  /\ results = <<>>
  /\ selectedIndex = 0
  /\ notification = ""
  /\ chatAnswer = ""
  /\ chatLoading = FALSE
  /\ secondaryMode = NoSecondaryMode
  /\ secondaryInput = <<>>
  /\ visibilityEpoch = 0
  /\ mouseState = [phase |-> "initial", x |-> 0, y |-> 0]
  /\ hidden = FALSE
  /\ searchTimer = {query}
  /\ searches = {<<>>}
  /\ notificationTimer = FALSE
  /\ dispatches = EmptyBag
  /\ history \in Ledgers
  /\ launches = launchesOf(history)
  /\ typed = 0
  /\ indexer = IdleIndexer
  /\ store = {}
  /\ health = MountedHealth
  /\ window = FocusedWindow
  /\ bridge = NoCall
  /\ output = ClosedOutput

\* The backend answers the search request for the empty query from the
\* ledger and the list of installed applications.
HistorySearchReturns(installed) ==
  /\ <<>> \in searches
  /\ searches' = searches \ {<<>>}
  /\ results' = emptyQueryResults(installed)
  /\ selectedIndex' = 0
  /\ UNCHANGED << query, notification, chatAnswer, chatLoading, secondaryMode,
                  secondaryInput, visibilityEpoch, mouseState, hidden, searchTimer,
                  notificationTimer, dispatches, history, launches, typed, indexer, store, health, output, window, bridge >>

\* ------------------------------------------- the action table (the backend)

\* The modifiers the action table reserves.
Reserved == {"alt", "altgr", "shift_ctrl"}

\* The categories of the action table, by the names the results carry
\* (onepass is the vault).
TableCategories ==
  {"onepass", "file", "vector", "app", "history", "ssh", "math", "action",
   "chat", "info"}

\* A table in which Shift+Ctrl selects the Shift column.
shiftWins(modifier) ==
  IF modifier = "shift_ctrl" THEN "shift"
  ELSE IF modifier \in Reserved THEN "none" ELSE modifier

\* The column of the table a modifier selects: the reserved modifiers fall
\* back to Enter's.
effective(modifier) == IF modifier \in Reserved THEN "none" ELSE modifier

\* The per-category action table of the dispatcher.
categoryAction(category, modifier) ==
  LET column == effective(modifier)
  IN CASE category = "onepass" ->
            IF column = "shift" THEN "copy secret"
            ELSE IF column = "ctrl" THEN "copy secondary field"
            ELSE "reveal and type secret"
       [] category \in {"file", "vector"} ->
            IF column = "shift" THEN "open containing dir in terminal"
            ELSE IF column = "ctrl" THEN "open in editor"
            ELSE "open"
       [] category \in {"app", "history"} -> "launch"
       [] category = "ssh" ->
            IF column = "ctrl" THEN "copy connection string" ELSE "connect"
       [] category = "math" ->
            IF column \in {"shift", "ctrl"} THEN "copy result" ELSE "no-op"
       [] category = "action" -> "run named action"
       [] category = "chat" -> "request AI answer"
       [] category = "info" -> "no-op"
       [] OTHER -> "not in the table"

\* The action the dispatcher performs for a call of the launcher.
performed(d) == categoryAction(d.item.category, d.modifier)

\* The queries of the modifier specification: one per category.
ModifierQueries ==
  { <<>>,                        \* history
    <<"#">>,                     \* special
    <<"?">>,                     \* info
    <<"?", "s">>,                \* chat
    <<":", "u", "p">>,           \* action
    <<SP, "s">>,                 \* file
    <<SP, "*", "s">>,            \* vector
    <<"!", "s">>,                \* onepass
    <<"s", "s", "h">>,           \* ssh
    <<"1", "+", "1">>,           \* math
    <<"S">> }                    \* app

\* The launcher with one of the queries typed and the debounce timer pending.
InitModifier ==
  /\ query \in ModifierQueries
  /\ results = <<>>
  /\ selectedIndex = 0
  /\ notification = ""
  /\ chatAnswer = ""
  /\ chatLoading = FALSE
  /\ secondaryMode = NoSecondaryMode
  /\ secondaryInput = <<>>
  /\ visibilityEpoch = 0
  /\ mouseState = [phase |-> "initial", x |-> 0, y |-> 0]
  /\ hidden = FALSE
  /\ searchTimer = {query}
  /\ searches = {}
  /\ notificationTimer = FALSE
  /\ dispatches = EmptyBag
  /\ history = {}
  /\ launches = <<>>
  /\ typed = MaxTyped
  /\ indexer = IdleIndexer
  /\ store = {}
  /\ health = MountedHealth
  /\ window = FocusedWindow
  /\ bridge = NoCall
  /\ output = ClosedOutput

\* ------------------------------------------------- the output view (OutputView)

\* The variables other than the output view.
launcherVars == << appVars, indexer, store, bridge >>

\* The command of a label writes one more line.
CommandWrites(l) ==
  /\ ~output.commands[l].done /\ output.commands[l].total < MaxWritten
  /\ output' = [output EXCEPT !.commands[l].total = @ + 1]
  /\ UNCHANGED launcherVars

\* The command of a label exits with a code.
CommandExits(l, code) ==
  /\ ~output.commands[l].done
  /\ output' = [output EXCEPT !.commands[l].done = TRUE, !.commands[l].exit_code = code]
  /\ UNCHANGED launcherVars

\* The OutputSnapshot get_output answers to the request p: the lines past
\* sinceIndex, each the pair of its label and its number in the order the
\* command wrote them.
snapshot(p) ==
  LET command == output.commands[p.label]
  IN [lines |-> [i \in 1..Max(command.total - p.sinceIndex, 0) |->
                   <<p.label, p.sinceIndex + i>>],
      done |-> command.done, exit_code |-> command.exit_code,
      total |-> command.total]

\* next.length > MAX_LINES ? next.slice(-MAX_LINES) : next
capped(next) ==
  IF Len(next) > MAX_LINES THEN SubSeq(next, Len(next) - MAX_LINES + 1, Len(next))
  ELSE next

\* A view that gives up at the first failed poll.
givesUpAtOnce(count) == count >= 1

\* errorCountRef.current >= MAX_CONSECUTIVE_ERRORS
givesUp(count) == count >= MAX_CONSECUTIVE_ERRORS

\* stopped = true; clearInterval(id) in the closure of the effect that made
\* the request p: the interval that runs is stopped when it is that effect's.
stop(p) == IF p.effect = output.effect THEN FALSE ELSE output.polling

\* The interval of the poll effect fires: invoke("get_output") with the label
\* of the effect and sinceIndexRef.current, up to its await.
PollTick ==
  /\ output.polling /\ BagCardinality(output.polls) < MaxPolls
  /\ output' = [output EXCEPT !.polls = @ (+) SetToBag({
                   [label |-> output.label, sinceIndex |-> output.sinceIndex,
                    effect |-> output.effect]})]
  /\ UNCHANGED launcherVars

\* The callback after its await, which does not read the stopped flag again:
\* get_output answered the request p.
PollReturns(p) ==
  /\ BagIn(p, output.polls)
  /\ LET snap == snapshot(p)
     IN output' =
          [output EXCEPT
             !.polls = @ (-) SetToBag({p}),
             !.lines = IF Len(snap.lines) > 0 THEN capped(@ \o snap.lines) ELSE @,
             !.sinceIndex = snap.total,
             !.errorCount = 0,
             !.done = IF snap.done THEN TRUE ELSE @,
             !.exitCode = IF snap.done THEN snap.exit_code ELSE @,
             !.polling = IF snap.done THEN stop(p) ELSE @]
  /\ UNCHANGED launcherVars

\* The callback's catch: get_output was rejected for the request p.
PollFails(p) ==
  /\ BagIn(p, output.polls)
  /\ LET count == output.errorCount + 1
     IN output' =
          [output EXCEPT
             !.polls = @ (-) SetToBag({p}),
             !.errorCount = count,
             !.pollError = IF givesUp(count) THEN count ELSE @,
             !.polling = IF givesUp(count) THEN stop(p) ELSE @]
  /\ UNCHANGED launcherVars

\* The view is rendered with another label: the poll effect's cleanup stops
\* its interval, the reset effect clears the state, and the poll effect
\* starts an interval for the new label. The requests in flight stay.
LabelChanges(l) ==
  /\ output.label # 0 /\ l # output.label /\ output.effect < MaxLabelChanges
  /\ output' = [MountedOutput(l) EXCEPT
                  !.effect = output.effect + 1,
                  !.polls = output.polls,
                  !.commands = output.commands]
  /\ UNCHANGED launcherVars

\* The output window mounted for the command of label 1.
InitOutput ==
  /\ query = <<>>
  /\ results = <<>>
  /\ selectedIndex = 0
  /\ notification = ""
  /\ chatAnswer = ""
  /\ chatLoading = FALSE
  /\ secondaryMode = NoSecondaryMode
  /\ secondaryInput = <<>>
  /\ visibilityEpoch = 0
  /\ mouseState = [phase |-> "initial", x |-> 0, y |-> 0]
  /\ hidden = FALSE
  /\ searchTimer = {}
  /\ searches = {}
  /\ notificationTimer = FALSE
  /\ dispatches = EmptyBag
  /\ history = {}
  /\ launches = <<>>
  /\ typed = 0
  /\ indexer = IdleIndexer
  /\ store = {}
  /\ health = [MountedHealth EXCEPT !.pending = 0]
  /\ window = FocusedWindow
  /\ bridge = NoCall
  /\ output = MountedOutput(1)

\* ------------------------------------------------ the bridge's invoke (HTTP)

\* Length of a response body.
MaxBody == 4

\* The characters of a response body: enough for null, numbers, strings,
\* arrays and white space.
BodyChars == {"n", "u", "l", "1", "\"", "[", "]", ",", SP}

Bodies == UNION {[1..k -> BodyChars] : k \in 0..MaxBody}

HttpStatuses == {200, 299, 300, 404}

\* What answers a call: the webview's IPC (which resolves or rejects), no
\* server at all, or a server's response with its status and its body, which
\* can be read or breaks off.
Servers ==
  [webview : {TRUE}, reachable : {FALSE}, status : {0}, readable : BOOLEAN, body : {<<>>}]
  \cup [webview : {FALSE}, reachable : {FALSE}, status : {0}, readable : {FALSE}, body : {<<>>}]
  \cup [webview : {FALSE}, reachable : {TRUE}, status : HttpStatuses, readable : BOOLEAN,
        body : Bodies]

\* Response.ok: the status is in the range 200-299.
resOk(status) == status >= 200 /\ status <= 299

\* The index of the first character of s at or after i that is not white
\* space (Len(s) + 1 when there is none).
skipWs(s, i) ==
  IF \E j \in i..Len(s) : s[j] # SP
  THEN CHOOSE j \in i..Len(s) : s[j] # SP /\ \A k \in i..(j - 1) : s[k] = SP
  ELSE Len(s) + 1

\* The index after the run of digits that starts at i.
digitsEnd(s, i) ==
  IF \E j \in i..Len(s) : s[j] # "1"
  THEN CHOOSE j \in i..Len(s) : s[j] # "1" /\ \A k \in i..(j - 1) : s[k] = "1"
  ELSE Len(s) + 1

\* JSON.parse's value at i: the index after it, or 0 for a SyntaxError.
RECURSIVE parseValue(_, _)
RECURSIVE parseElements(_, _)
parseValue(s, i) ==
  IF i > Len(s) THEN 0
  ELSE IF s[i] = "n"
    THEN IF i + 3 <= Len(s) /\ SubSeq(s, i, i + 3) = <<"n", "u", "l", "l">>
         THEN i + 4 ELSE 0
  ELSE IF s[i] = "1" THEN digitsEnd(s, i)
  ELSE IF s[i] = "\""
    THEN IF \E j \in (i + 1)..Len(s) : s[j] = "\""
         THEN 1 + CHOOSE j \in (i + 1)..Len(s) :
                    s[j] = "\"" /\ \A k \in (i + 1)..(j - 1) : s[k] # "\""
         ELSE 0
  ELSE IF s[i] = "["
    THEN LET j == skipWs(s, i + 1)
         IN IF j <= Len(s) /\ s[j] = "]" THEN j + 1 ELSE parseElements(s, j)
  ELSE 0

\* The elements of an array from i on, up to its closing bracket.
parseElements(s, i) ==
  LET e == parseValue(s, i)
  IN IF e = 0 THEN 0
     ELSE LET k == skipWs(s, e)
          IN IF k > Len(s) THEN 0
             ELSE IF s[k] = "]" THEN k + 1
             ELSE IF s[k] = "," THEN parseElements(s, skipWs(s, k + 1))
             ELSE 0

\* The text without the white space outside its strings: the value it
\* denotes.
RECURSIVE denoted(_, _, _)
denoted(s, i, inString) ==
  IF i > Len(s) THEN <<>>
  ELSE IF s[i] = SP /\ ~inString THEN denoted(s, i + 1, inString)
  ELSE <<s[i]>> \o denoted(s, i + 1, IF s[i] = "\"" THEN ~inString ELSE inString)

\* A parser that takes every body for JSON.
parsesAnything(text) == [ok |-> TRUE, value |-> text]

\* JSON.parse(text): the value, or a SyntaxError.
JSONparse(text) ==
  LET e == parseValue(text, skipWs(text, 1))
  IN IF e # 0 /\ skipWs(text, e) = Len(text) + 1
     THEN [ok |-> TRUE, value |-> denoted(text, 1, FALSE)]
     ELSE [ok |-> FALSE, value |-> <<>>]

\* The promise of invoke settled: resolved with a value or rejected with an
\* Error that carries a message.
resolved(value) == <<[resolved |-> TRUE, value |-> value, error |-> ""]>>
rejected(message) == <<[resolved |-> FALSE, value |-> <<>>, error |-> message]>>

\* The variables other than the bridge's call.
bridgeFrame == UNCHANGED << appVars, indexer, store, output >>

\* invoke up to its first await: in the webview the call is handed to the
\* IPC runtime, outside it is sent to the HTTP bridge with fetch.
BridgeInvoke ==
  /\ bridge.pc = "invoke"
  /\ bridge' = [bridge EXCEPT !.pc = IF bridge.server[1].webview THEN "ipc" ELSE "fetch"]
  /\ bridgeFrame

\* tauriInternals.invoke settles.
IpcSettles ==
  /\ bridge.pc = "ipc"
  /\ bridge' = [bridge EXCEPT !.pc = "done",
                  !.outcome = IF bridge.server[1].readable THEN resolved(<<"n">>)
                              ELSE rejected("ipc")]
  /\ bridgeFrame

\* await fetch settles: it rejects when the server cannot be reached, else
\* the response is there and its status is looked at.
FetchSettles ==
  /\ bridge.pc = "fetch"
  /\ LET server == bridge.server[1]
     IN bridge' =
          IF ~server.reachable
          THEN [bridge EXCEPT !.pc = "done", !.outcome = rejected("Cannot reach dev server")]
          ELSE IF ~resOk(server.status) THEN [bridge EXCEPT !.pc = "errorBody"]
          ELSE [bridge EXCEPT !.pc = "body"]
  /\ bridgeFrame

\* await res.text().catch(...) of a response that is not ok settles: the
\* Error carries the body or "(no response body)".
ErrorBodySettles ==
  /\ bridge.pc = "errorBody"
  /\ bridge' = [bridge EXCEPT !.pc = "done", !.outcome = rejected("failed")]
  /\ bridgeFrame

\* await res.text() of an ok response settles: its rejection is that of
\* invoke; the text is parsed, and a SyntaxError becomes an Error.
BodySettles ==
  /\ bridge.pc = "body"
  /\ LET server == bridge.server[1]
         json == JSONparse(server.body)
     IN bridge' =
          [bridge EXCEPT !.pc = "done",
             !.outcome = IF ~server.readable THEN rejected("TypeError")
                         ELSE IF json.ok THEN resolved(json.value)
                         ELSE rejected("returned invalid JSON")]
  /\ bridgeFrame

\* invoke called, over every answer of the bounded set.
InitBridge ==
  /\ query = <<>>
  /\ results = <<>>
  /\ selectedIndex = 0
  /\ notification = ""
  /\ chatAnswer = ""
  /\ chatLoading = FALSE
  /\ secondaryMode = NoSecondaryMode
  /\ secondaryInput = <<>>
  /\ visibilityEpoch = 0
  /\ mouseState = [phase |-> "initial", x |-> 0, y |-> 0]
  /\ hidden = FALSE
  /\ searchTimer = {}
  /\ searches = {}
  /\ notificationTimer = FALSE
  /\ dispatches = EmptyBag
  /\ history = {}
  /\ launches = <<>>
  /\ typed = 0
  /\ indexer = IdleIndexer
  /\ store = {}
  /\ health = [MountedHealth EXCEPT !.pending = 0]
  /\ window = FocusedWindow
  /\ output = ClosedOutput
  /\ bridge \in [pc : {"invoke"}, server : {<<s>> : s \in Servers}, outcome : {<<>>}]

\* ------------------------------------------------------ the specifications

\* Typing and the search pipeline.
Searching ==
  \/ \E q \in Queries : TypeQuery(q)
  \/ \E v \in SecondaryInputs : TypeSecondary(v)
  \/ SearchTimerFires
  \/ \E q \in Queries : SearchReturns(q)
  \/ \E q \in Queries : SearchFails(q)

\* The backend settles a command and the notification's timeout fires.
Settling ==
  \/ \E d \in BagToSet(dispatches), ok \in BOOLEAN : ChatAskReturns(d, ok)
  \/ \E d \in BagToSet(dispatches), ok \in BOOLEAN : RunSettingReturns(d, ok)
  \/ \E d \in BagToSet(dispatches), ok \in BOOLEAN : RecordLaunchReturns(d, ok)
  \/ \E d \in BagToSet(dispatches), ok \in BOOLEAN : ExecuteActionReturns(d, ok)
  \/ NotificationTimerFires

\* The launcher driven by the keyboard and by clicks, the pointer at rest.
Next ==
  \/ Searching
  \/ ArrowDown
  \/ ArrowUp
  \/ \E flags \in KeyFlags : Enter(flags)
  \/ \E i \in 1..2 : Click(i)
  \/ Escape
  \/ Hide
  \/ Show
  \/ Settling

Spec == Init /\ [][Next]_vars

\* The launcher driven by the pointer too, Enter pressed without modifier keys.
NextPointer ==
  \/ Searching
  \/ ArrowDown
  \/ ArrowUp
  \/ Enter(NoKeys)
  \/ \E i \in 1..2 : Click(i)
  \/ Escape
  \/ Hide
  \/ Show
  \/ \E x \in Xs, y \in Ys : MouseMove(x, y)
  \/ \E i \in 1..2 : MouseEnter(i)
  \/ Settling

SpecPointer == Init /\ [][NextPointer]_vars

\* The indexer pipeline and the start requests it is sent.
NextIndexer ==
  \/ \E mode \in {"full", "incremental"} : StartRequest(mode)
  \/ \E f \in [path : Paths, hash : Hashes] : ScanFile(f)
  \/ ScanDone
  \/ \E f \in indexer.seen, extracted \in BOOLEAN : EmbedFile(f, extracted)
  \/ RunDone
  \/ RunFailed
  \/ SummaryObserved

SpecIndexer == Init /\ [][NextIndexer]_vars


\* The search for the empty query issued at the start, served from the ledger.
NextLedger == \E installed \in InstalledLists : HistorySearchReturns(installed)

SpecLedger == InitLedger /\ [][NextLedger]_vars

\* The embedding stores of the router specification: empty, and with a record.
RouterStores == { {}, {embedding([path |-> 1, hash |-> "h1"])} }

\* The launcher with any query of the alphabet typed into its input and the
\* debounce timer pending, over any of the stores: the search pipeline alone.
InitRouter ==
  /\ query \in Strings(MaxLen)
  /\ results = search(<<>>)
  /\ selectedIndex = 0
  /\ notification = ""
  /\ chatAnswer = ""
  /\ chatLoading = FALSE
  /\ secondaryMode = NoSecondaryMode
  /\ secondaryInput = <<>>
  /\ visibilityEpoch = 0
  /\ mouseState = [phase |-> "initial", x |-> 0, y |-> 0]
  /\ hidden = FALSE
  /\ searchTimer = {query}
  /\ searches = {}
  /\ notificationTimer = FALSE
  /\ dispatches = EmptyBag
  /\ history = {}
  /\ launches = <<>>
  /\ typed = MaxTyped
  /\ indexer = IdleIndexer
  /\ store \in RouterStores
  /\ health = MountedHealth
  /\ window = FocusedWindow
  /\ bridge = NoCall
  /\ output = ClosedOutput

NextRouter ==
  \/ SearchTimerFires
  \/ \E q \in searches : SearchReturns(q)
  \/ \E q \in searches : SearchFails(q)

SpecRouter == InitRouter /\ [][NextRouter]_vars

\* The pipeline runs on its own execution context and has no cancel: the
\* walk ends, every file seen is dealt with, the run is closed, and a
\* finished run's state is left for Idle whether its summary is polled or not.
SpecIndexerFair ==
  /\ SpecIndexer
  /\ WF_vars(ScanDone)
  /\ WF_vars(\E f \in indexer.seen, extracted \in BOOLEAN : EmbedFile(f, extracted))
  /\ WF_vars(RunDone)
  /\ WF_vars(SummaryObserved)

\* The launcher with its health checks: a query typed, Enter and Escape,
\* secondary input, the checks of the interval and their answers, and the
\* click on the health indicator.
NextHealth ==
  \/ SearchTimerFires
  \/ \E q \in searches : SearchReturns(q)
  \/ Enter(NoKeys)
  \/ Escape
  \/ \E v \in SecondaryInputs : TypeSecondary(v)
  \/ HealthInterval
  \/ \E status \in Statuses : HealthCheckReturns(status)
  \/ HealthCheckFails
  \/ ClickHealthIndicator

SpecHealth == InitModifier /\ [][NextHealth]_vars

\* The launcher after the question "?s" was typed and its search returned.
InitChat ==
  /\ query = <<"?", "s">>
  /\ results = search(<<"?", "s">>)
  /\ selectedIndex = 0
  /\ notification = ""
  /\ chatAnswer = ""
  /\ chatLoading = FALSE
  /\ secondaryMode = NoSecondaryMode
  /\ secondaryInput = <<>>
  /\ visibilityEpoch = 0
  /\ mouseState = [phase |-> "initial", x |-> 0, y |-> 0]
  /\ hidden = FALSE
  /\ searchTimer = {}
  /\ searches = {}
  /\ notificationTimer = FALSE
  /\ dispatches = EmptyBag
  /\ history = {}
  /\ launches = <<>>
  /\ typed = 0
  /\ indexer = IdleIndexer
  /\ store = {}
  /\ health = MountedHealth
  /\ window = FocusedWindow
  /\ bridge = NoCall
  /\ output = ClosedOutput

\* The queries typed around a chat question: the chat hint and the question.
ChatQueries == { <<"?">>, <<"?", "s">> }

\* The launcher with its queries and their searches, Enter, the answers of
\* chat_ask, and the window hidden and shown.
NextChat ==
  \/ \E q \in ChatQueries : TypeQuery(q)
  \/ SearchTimerFires
  \/ \E q \in searches : SearchReturns(q)
  \/ \E q \in searches : SearchFails(q)
  \/ Enter(NoKeys)
  \/ \E d \in BagToSet(dispatches), ok \in BOOLEAN : ChatAskReturns(d, ok)
  \/ Hide
  \/ Show

SpecChat == InitChat /\ [][NextChat]_vars

\* The launcher with Enter pressed under every combination of the four
\* modifier keys, and clicks.
NextModifier ==
  \/ SearchTimerFires
  \/ \E q \in searches : SearchReturns(q)
  \/ \E flags \in Flags : Enter(flags)
  \/ \E i \in 1..2 : Click(i)
  \/ Settling

SpecModifier == InitModifier /\ [][NextModifier]_vars

\* The output view, the commands it shows and the answers to its polls.
NextOutput ==
  \/ \E l \in Labels : CommandWrites(l)
  \/ \E l \in Labels, code \in {0, 1} : CommandExits(l, code)
  \/ PollTick
  \/ \E p \in BagToSet(output.polls) : PollReturns(p)
  \/ \E p \in BagToSet(output.polls) : PollFails(p)
  \/ \E l \in Labels : LabelChanges(l)

SpecOutput == InitOutput /\ [][NextOutput]_vars

\* The queries typed on the way to secondary-input mode: the special command,
\* which has an input_spec, and the chat hint, which has none.
SecondaryModeQueries == { <<"#">>, <<"?">> }

\* The launcher's window: its focus, Escape, the requests to hide it, and
\* what it takes to reach secondary-input mode.
NextWindow ==
  \/ \E q \in SecondaryModeQueries : TypeQuery(q)
  \/ SearchTimerFires
  \/ \E q \in searches : SearchReturns(q)
  \/ ArrowDown
  \/ ArrowUp
  \/ Enter(NoKeys)
  \/ \E v \in SecondaryInputs : TypeSecondary(v)
  \/ Escape
  \/ Blur
  \/ Focus
  \/ BlurTimerFires
  \/ HideWindowFails
  \/ Hide
  \/ Show

SpecWindow == Init /\ [][NextWindow]_vars

\* Positions of the pointer along a line: at the start, 10 px and 12 px away.
HoverXs == {0, 10, 12}

\* The launcher under the pointer: its moves and the results it enters, the
\* arrow keys, a query typed, the answers to the searches, and the window
\* hidden and shown.
NextHover ==
  \/ \E q \in Queries : TypeQuery(q)
  \/ \E x \in HoverXs, y \in Ys : MouseMove(x, y)
  \/ \E i \in 1..2 : MouseEnter(i)
  \/ ArrowDown
  \/ ArrowUp
  \/ SearchTimerFires
  \/ \E q \in searches : SearchReturns(q)
  \/ Hide
  \/ Show

SpecHover == Init /\ [][NextHover]_vars

\* A call of the bridge's invoke, step by step.
NextBridge ==
  \/ BridgeInvoke
  \/ IpcSettles
  \/ FetchSettles
  \/ ErrorBodySettles
  \/ BodySettles

SpecBridge == InitBridge /\ [][NextBridge]_vars

\* The launcher with a query typed and secondary-input mode within reach:
\* its search, Enter, secondary input, Escape, and the backend settling the
\* commands.
NextSecondary ==
  \/ SearchTimerFires
  \/ \E q \in searches : SearchReturns(q)
  \/ Enter(NoKeys)
  \/ \E v \in SecondaryInputs : TypeSecondary(v)
  \/ Escape
  \/ Settling

SpecSecondary == InitModifier /\ [][NextSecondary]_vars

\* ------------------------------------------------------------- the claims

\* C1: when a result that declares an input_spec is dispatched, by Enter with
\* any modifier or by a click, while secondary-input mode is not active, none
\* of record_launch, execute_action, chat_ask and run_setting is invoked (no
\* call is started, the ledger is not written) and the session is left in
\* secondary-input mode with that result pending.
C1_InputSpecEntersSecondaryMode ==
  [][ \A i \in DOMAIN results :
        /\ results[i].input_spec /\ ~secondaryMode.active
        /\ \/ \E flags \in KeyFlags : Enter(flags) /\ actionItem(<<>>) = <<results[i]>>
           \/ Click(i)
        => /\ dispatches' = dispatches
           /\ history' = history /\ launches' = launches
           /\ notification' = notification /\ chatLoading' = chatLoading
           /\ secondaryMode'.active /\ secondaryMode'.result = <<results[i]>> ]_vars

\* The cowork result of "#" is pending in secondary-input mode and no command
\* has been invoked.
C1_SpecialPending ==
  /\ secondaryMode.active
  /\ secondaryMode.result # <<>>
  /\ secondaryMode.result[1].category = "special"
  /\ secondaryMode.result[1].input_spec
  /\ secondaryMode.previousQuery = <<"#">>
  /\ dispatches = EmptyBag /\ launches = <<>> /\ history = {}


\* C2: in secondary-input mode Enter, with any secondary input (the empty
\* string too), starts exactly one call for the pending result, which carries
\* the secondary input captured at that moment, and leaves the mode inactive;
\* a call invokes execute_action at most once, invokes it once its history
\* write has settled either way, and the mode stays as it is when
\* execute_action succeeds or fails.
C2_SecondaryEnterExecutesOnce ==
  [][ /\ \A flags \in KeyFlags :
           secondaryMode.active /\ Enter(flags)
             => /\ secondaryMode' = NoSecondaryMode
                /\ \E d \in BagToSet(dispatches') :
                     /\ dispatches' = dispatches (+) SetToBag({d})
                     /\ <<d.item>> = secondaryMode.result
                     /\ d.secondaryInput = <<secondaryInput>>
                     /\ d.calls \in {<<"record_launch">>, <<"execute_action">>}
      /\ \A d \in BagToSet(dispatches') :
           /\ Cardinality({k \in DOMAIN d.calls : d.calls[k] = "execute_action"}) <= 1
           /\ d.pc = "execute_action" => d.calls[Len(d.calls)] = "execute_action"
      /\ \A d \in BagToSet(dispatches), ok \in BOOLEAN :
           /\ RecordLaunchReturns(d, ok)
                => /\ BagIn([d EXCEPT !.pc = "execute_action",
                                      !.calls = <<"record_launch", "execute_action">>],
                            dispatches')
                   /\ BagCardinality(dispatches') = BagCardinality(dispatches)
           /\ ExecuteActionReturns(d, ok)
                => /\ secondaryMode' = secondaryMode
                   /\ dispatches' = dispatches (-) SetToBag({d}) ]_vars

\* The pending special result is being executed with the empty secondary input
\* captured by Enter, after its history write, and the mode is inactive.
C2_ExecutingWithEmptyInput ==
  /\ ~secondaryMode.active
  /\ \E d \in BagToSet(dispatches) :
       /\ d.item.input_spec /\ d.item.category = "special"
       /\ d.secondaryInput = << <<>> >>
       /\ d.pc = "execute_action"
       /\ d.calls = <<"record_launch", "execute_action">>


\* C3: a call dispatched for a result of category math or info never invokes
\* record_launch, and a call dispatched for a result of any other category
\* (app, history, file, ssh, vault, vector, special, chat, action) has invoked
\* record_launch exactly once.
C3_OneHistoryWritePerDispatch ==
  \A d \in BagToSet(dispatches) :
    LET writes == Cardinality({k \in DOMAIN d.calls : d.calls[k] = "record_launch"})
    IN IF d.item.category \in {"math", "info"} THEN writes = 0 ELSE writes = 1


\* C4: a full-reindex or incremental-update start request issued while a run
\* is Scanning or Embedding is rejected and leaves the run's state and its
\* progress counts unchanged, and in every state at most one indexing run is
\* active.
C4_SingleFlight ==
  [][ /\ indexer.workers <= 1 /\ indexer'.workers <= 1
      /\ \A mode \in {"full", "incremental"} :
           indexer.state \in {"Scanning", "Embedding"} /\ StartRequest(mode)
             => indexer' = [indexer EXCEPT !.reply = "rejected"] ]_vars

\* A start request was rejected in the middle of the embedding of a run.
C4_RejectedWhileEmbedding ==
  /\ indexer.state = "Embedding" /\ indexer.files_done = 1 /\ indexer.files_total = 2
  /\ indexer.reply = "rejected" /\ indexer.workers = 1


\* The classification the claim C5 states, rule by rule in its order; the
\* sub-query of a rule is the one mockSearch computes for it, and an
\* arithmetic expression is what mockSearch takes for one.
ClaimRoute(input) ==
  IF input = <<>> THEN [provider |-> "history", sub |-> <<>>]
  ELSE IF startsWith(input, <<":">>)
  THEN [provider |-> "settings", sub |-> toLowerCase(trim(slice(input, 1)))]
  ELSE IF startsWith(input, <<"#">>)
  THEN [provider |-> "special", sub |-> toLowerCase(trim(slice(input, 1)))]
  ELSE IF startsWith(input, <<"?">>)
  THEN [provider |-> "chat", sub |-> trim(slice(input, 1))]
  ELSE IF startsWith(input, <<"!">>)
  THEN [provider |-> "vault", sub |-> trim(slice(input, 1))]
  ELSE IF \/ input = <<"s", "s", "h">>
          \/ startsWith(input, <<"s", "s", "h">>) /\ IsSpace(input[4])
  THEN [provider |-> "ssh", sub |-> sshRemainder(input)]
  ELSE IF startsWith(input, <<SP>>)
  THEN IF startsWith(trimStart(input), <<"*">>)
       THEN [provider |-> "vector", sub |-> trim(slice(trimStart(input), 1))]
       ELSE [provider |-> "file", sub |-> trimStart(input)]
  ELSE IF MATH_RE(input) /\ isFiniteNumber(input)
  THEN [provider |-> "math", sub |-> input]
  ELSE [provider |-> "app", sub |-> toLowerCase(input)]

\* C5: a query is classified by the first matching rule: empty is History;
\* ":" Settings; "#" Special; "?" Chat; "!" Vault; "ssh" exactly or "ssh"
\* followed by whitespace SSH; a leading space Vector if the trimmed remainder
\* starts with "*", else File; otherwise Math if it is an arithmetic
\* expression, else App. The results a search returns are those of the
\* provider of that class.
C5_ClassifiedByFirstMatchingRule ==
  [][ \A q \in searches :
        SearchReturns(q) => results' = withInputSpec(branchResults(ClaimRoute(q), q)) ]_vars


\* C7: after any sequence of launch recordings the history holds exactly one
\* row per distinct launched id, and the launch_count of the row is the number
\* of times the id was launched.
C7_OneRowPerIdCountsLaunches ==
  /\ \A r, s \in history : r.id = s.id => r = s
  /\ {r.id : r \in history} = {launches[k] : k \in DOMAIN launches}
  /\ \A r \in history :
       r.launch_count = Cardinality({k \in DOMAIN launches : launches[k] = r.id})

\* The same id was launched twice and its one row counts two launches.
C7_LaunchedTwice ==
  /\ Len(launches) = 2 /\ launches[1] = launches[2]
  /\ \E r \in history : r.id = launches[1] /\ r.launch_count = 2

\* C8: a call that records history invokes execute_action only when its
\* record_launch has settled, the row of a completed write then being in the
\* history; when execute_action settles, the history is as it was, and a
\* failure is reported in the notification.
C8_HistoryWriteBeforeAction ==
  [][ /\ \A d \in BagToSet(dispatches') :
           /\ d.pc = "execute_action"
           /\ "record_launch" \in {d.calls[k] : k \in DOMAIN d.calls}
                \/ d.item.category \notin {"math", "info"}
           /\ CopiesIn(d, dispatches') > CopiesIn(d, dispatches)
           => /\ d.calls = <<"record_launch", "execute_action">>
              /\ \E c \in BagToSet(dispatches), ok \in BOOLEAN :
                   /\ c.pc = "record_launch" /\ c.item = d.item
                   /\ RecordLaunchReturns(c, ok)
                   /\ ok => /\ launches' = Append(launches, d.item.id)
                            /\ \E r \in history' : r.id = d.item.id
      /\ \A d \in BagToSet(dispatches), ok \in BOOLEAN :
           ExecuteActionReturns(d, ok)
             => /\ history' = history /\ launches' = launches
                /\ ~ok => notification' = "failed" ]_vars

\* The action of a launch from the history list has failed and is reported,
\* and the launch stays recorded.
C8_FailedActionStaysRecorded ==
  /\ notification = "failed" /\ query = <<>>
  /\ dispatches = EmptyBag
  /\ Len(launches) = 1
  /\ \E r \in history : r.id = launches[1] /\ r.launch_count = 1

\* C9: secondary-input mode is entered with the query of that moment as the
\* query to restore and keeps it while it is active, whatever is typed as
\* secondary input; Escape in the mode starts no call, writes no history,
\* leaves the mode inactive and sets the query to exactly that string.
C9_EscapeRestoresQuery ==
  [][ /\ ~secondaryMode.active /\ secondaryMode'.active
           => secondaryMode'.previousQuery = query
      /\ secondaryMode.active /\ secondaryMode'.active
           => secondaryMode' = secondaryMode
      /\ secondaryMode.active /\ Escape
           => /\ dispatches' = dispatches
              /\ history' = history /\ launches' = launches
              /\ secondaryMode' = NoSecondaryMode
              /\ query' = secondaryMode.previousQuery ]_vars

\* Escape has restored the query "#" and searches for it a second time.
C9_QueryRestored ==
  /\ query = <<"#">> /\ ~secondaryMode.active /\ secondaryInput = <<>>
  /\ typed = MaxTyped
  /\ results = search(<<"#">>)
  /\ <<"#">> \in searches
  /\ dispatches = EmptyBag /\ launches = <<>>

\* C10: while the window is hidden the session state is the cleared one:
\* secondary-input mode inactive with no pending result and an empty restore
\* query, secondary input empty, query empty, selection index 0, chat answer
\* empty, chat loading false and the mouse-hover phase initial.
C10_HiddenSessionCleared ==
  hidden => /\ secondaryMode = [active |-> FALSE, result |-> <<>>, previousQuery |-> <<>>]
            /\ secondaryInput = <<>>
            /\ query = <<>>
            /\ selectedIndex = 0
            /\ chatAnswer = ""
            /\ ~chatLoading
            /\ mouseState.phase = "initial"

\* The window was hidden while a chat question was being answered.
C10_HiddenWhileChatLoading ==
  /\ hidden /\ ~chatLoading
  /\ \E d \in BagToSet(dispatches) : d.pc = "chat_ask" /\ d.epoch < visibilityEpoch


\* C11: in the history list the backend has returned for the empty query, of
\* two rows with equal launch_count the one with the more recent
\* last_launched_at ranks first, of two rows with equal last_launched_at the
\* one with the higher launch_count ranks first (a row that is listed is never
\* outranked by one that is left out), and the list has at most max_results
\* entries.
C11_FrecencyOrder ==
  results # <<>> \/ searches = {}
    => LET listed == {k \in DOMAIN results : results[k].category = "history"}
           place(r) == IF \E k \in listed : results[k].id = r.id
                       THEN CHOOSE k \in listed : results[k].id = r.id
                       ELSE Len(results) + 1
       IN /\ Cardinality(listed) <= max_results
          /\ Cardinality(listed) = Min(max_results, Cardinality(history))
          /\ \A r, s \in history :
               \/ /\ r.launch_count = s.launch_count
                  /\ r.last_launched_at > s.last_launched_at
               \/ /\ r.last_launched_at = s.last_launched_at
                  /\ r.launch_count > s.launch_count
               => place(r) < place(s) \/ place(s) = Len(results) + 1

\* The list is full: of two rows of equal count and equal score the more
\* recent one, the later id, is listed and the older one is left out.
C11_RecentFirstOfEqualScore ==
  /\ Cardinality(history) = 3 /\ Len(results) >= 2
  /\ results[1].category = "history" /\ results[2].category = "history"
  /\ results[2].id = LedgerIds[2]
  /\ \A k \in DOMAIN results : results[k].id # LedgerIds[1]
  /\ \E r, s \in history :
       /\ r.id = LedgerIds[2] /\ s.id = LedgerIds[1]
       /\ r.launch_count = s.launch_count
       /\ r.last_launched_at > s.last_launched_at
       /\ score(r) = score(s)


\* C12: the result list the backend returns for the empty query, whatever the
\* ledger and the list of installed applications hold, has no id twice, has
\* every history item before every app item, has the history items in rank
\* order, and has after them exactly the installed applications whose ids are
\* not shown as history, in alphabetical order.
C12_HistoryFirstNoDuplicates ==
  [][ \A installed \in InstalledLists :
        HistorySearchReturns(installed)
          => LET rs == results'
                 hist == {k \in DOMAIN rs : rs[k].category = "history"}
                 app == {k \in DOMAIN rs : rs[k].category = "app"}
                 row(k) == CHOOSE r \in history : r.id = rs[k].id
                 entry(k) == CHOOSE i \in 1..Len(apps) : <<apps[i].id, <<>>>> = rs[k].id
             IN /\ hist \cup app = DOMAIN rs
                /\ \A j, k \in DOMAIN rs : j # k => rs[j].id # rs[k].id
                /\ \A j \in hist, k \in app : j < k
                /\ \A k \in hist : \E r \in history : r.id = rs[k].id
                /\ \A j, k \in hist : j < k => score(row(j)) >= score(row(k))
                /\ {rs[k].id : k \in app}
                     = {<<apps[i].id, <<>>>> : i \in installed} \ {rs[k].id : k \in hist}
                /\ \A j, k \in app :
                     j < k => precedes(apps[entry(j)].name, apps[entry(k)].name) ]_vars

\* Firefox is shown as a history item and not again as an application, and
\* the other installed applications follow in alphabetical order.
C12_HistoryThenApps ==
  /\ Len(results) = 4
  /\ results[1].category = "history" /\ results[2].category = "history"
  /\ \E k \in 1..2 : results[k].id = <<"firefox", <<>>>>
  /\ \E r \in history : r.id = <<"kitty", <<>>>>
  /\ results[3] = appResult(apps[2]) /\ results[4] = appResult(apps[3])


\* C13: a search for a query that goes to the math test of mockSearch (none of
\* the prefixes, an arithmetic character in it) returns exactly one result,
\* of category math and named "= " followed by the value, when the query
\* evaluates to a finite number, and the empty list, not an error, when the
\* query does not parse, throws or evaluates to a value that is not finite
\* (the remainder of a division by zero).
C13_MathOneResultOrNone ==
  [][ \A q \in searches :
        /\ SearchReturns(q)
        /\ q # <<>> /\ q[1] \notin {":", "#", "?", "!", SP}
        /\ ~(startsWith(q, <<"s", "s", "h", SP>>) \/ q = <<"s", "s", "h">>)
        /\ \E i \in DOMAIN q : q[i] \in {"+", "-", "*", "/", "^", "%", "(", ")"}
        => IF evalFunction(q).t = "num"
           THEN /\ Len(results') = 1
                /\ results'[1].category = "math"
                /\ results'[1].name = <<"= ", numberToString(evalFunction(q).v)>>
           ELSE results' = <<>> ]_vars

\* The search for "1%0", not a finite number, has returned the empty list.
C13_RemainderByZeroEmpty ==
  /\ query = <<"1", "%", "0">> /\ searches = {} /\ searchTimer = {}
  /\ results = <<>>
  /\ evalFunction(query).t = "nan"

\* The search for "1+1" has returned the one result "= 2".
C13_OnePlusOne ==
  /\ query = <<"1", "+", "1">> /\ searches = {} /\ searchTimer = {}
  /\ Len(results) = 1 /\ results[1].category = "math"
  /\ results[1].name = <<"= ", <<"2">>>>


\* C14: a search for a content query whose text after "*" is empty or white
\* space (" *", " * ", "  *") returns the empty list whatever the embedding
\* store holds, and it requests nothing of the backend: no command is started
\* and the store is left as it is.
C14_EmptyContentQueryNoResults ==
  [][ \A q \in searches :
        /\ SearchReturns(q)
        /\ q # <<>> /\ q[1] = SP
        /\ \E k \in DOMAIN q :
             /\ q[k] = "*"
             /\ \A i \in DOMAIN q : i # k => IsSpace(q[i])
        => /\ results' = <<>>
           /\ store' = store
           /\ dispatches' = dispatches ]_vars

\* The search for " * " has returned the empty list over a store that holds a
\* record.
C14_StarAloneEmpty ==
  /\ query = <<SP, "*", SP>> /\ searches = {} /\ searchTimer = {}
  /\ results = <<>>
  /\ store # {}


\* C15: the search for "?" returns exactly one result, the hint of category
\* info; dispatching a result of category info, by Enter with any modifier or
\* by a click, starts one call that invokes only execute_action, neither
\* chat_ask nor record_launch, writes no history and leaves the chat answer
\* and the chat loading flag as they are, and the call never invokes another
\* command.
C15_HintNotActionable ==
  [][ /\ SearchReturns(<<"?">>)
        => /\ Len(results') = 1
           /\ results'[1].category = "info" /\ ~results'[1].input_spec
      /\ \A i \in DOMAIN results :
           /\ results[i].category = "info" /\ ~secondaryMode.active
           /\ \/ \E flags \in KeyFlags : Enter(flags) /\ actionItem(<<>>) = <<results[i]>>
              \/ Click(i)
           => /\ \E d \in BagToSet(dispatches') :
                   /\ dispatches' = dispatches (+) SetToBag({d})
                   /\ d.item = results[i]
                   /\ d.calls = <<"execute_action">>
              /\ history' = history /\ launches' = launches
              /\ chatAnswer' = chatAnswer /\ chatLoading' = chatLoading
      /\ \A d \in BagToSet(dispatches') :
           d.item.category = "info" => d.calls = <<"execute_action">>
      /\ \A d \in BagToSet(dispatches), ok \in BOOLEAN :
           d.item.category = "info" /\ ExecuteActionReturns(d, ok)
             => /\ chatAnswer' = chatAnswer /\ chatLoading' = chatLoading
                /\ history' = history ]_vars

\* The hint of "?" was dispatched with Shift and Ctrl held: its call awaits
\* execute_action, no chat answer is shown or loading, the history is empty.
C15_HintDispatched ==
  /\ query = <<"?">>
  /\ \E d \in BagToSet(dispatches) :
       /\ d.item.id = <<"chat-hint", <<>>>> /\ d.item.category = "info"
       /\ d.modifier = "shift_ctrl" /\ d.pc = "execute_action"
  /\ chatAnswer = "" /\ ~chatLoading /\ history = {} /\ launches = <<>>


\* The calls in flight that have invoked chat_ask.
C16_asked(ds) ==
  LET asking == {d \in BagToSet(ds) :
                   \E k \in DOMAIN d.calls : d.calls[k] = "chat_ask"}
  IN BagCardinality([d \in asking |-> ds[d]])

\* C16: typing, the debounce timer and the return or failure of a search
\* leave the commands in flight as they are, and a step after which one more
\* call has invoked chat_ask is Enter or a click on a result of category chat.
C16_ChatAskOnlyByChatDispatch ==
  [][ /\ Searching => dispatches' = dispatches
      /\ C16_asked(dispatches') > C16_asked(dispatches)
           => /\ C16_asked(dispatches') = C16_asked(dispatches) + 1
              /\ \/ /\ \E flags \in KeyFlags : Enter(flags)
                    /\ actionItem(<<>>) # <<>>
                    /\ actionItem(<<>>)[1].category = "chat"
                 \/ \E i \in DOMAIN results :
                      Click(i) /\ results[i].category = "chat" ]_vars

\* The query "?s" was searched and its result of category chat dispatched:
\* one call awaits chat_ask and the answer is loading.
C16_AskedAfterDispatch ==
  /\ query = <<"?", "s">>
  /\ \E d \in BagToSet(dispatches) :
       d.item.category = "chat" /\ d.pc = "chat_ask" /\ d.query = query
  /\ C16_asked(dispatches) = 1
  /\ chatLoading


\* C17: Enter with AltGr held, with Shift and Ctrl held, or with Alt alone
\* held, on a result of a category of the action table, starts the call
\* that plain Enter starts but for its modifier, and the dispatcher performs
\* for it the action of the table's Enter column; with Shift and Ctrl held
\* the action is not that of the Shift column nor that of the Ctrl column
\* wherever that column differs from Enter's.
C17_ReservedFallBackToEnter ==
  [][ \A flags \in Flags :
        /\ flags.altgr \/ (flags.shift /\ flags.ctrl)
             \/ (flags.alt /\ ~flags.shift /\ ~flags.ctrl)
        /\ Enter(flags)
        /\ dispatches' # dispatches
        => \E d \in BagToSet(dispatches') :
             /\ dispatches' = dispatches (+) SetToBag({d})
             /\ d.item.category \in TableCategories
                  => LET first == firstCommand(d.item.category)
                         plain == Dispatch(d.item, "none", d.secondaryInput, first)
                     IN /\ d.modifier \in Reserved \cup {"none"}
                        /\ [d EXCEPT !.modifier = "none"] = plain
                        /\ performed(d) = performed(plain)
                        /\ performed(d) = categoryAction(d.item.category, "none")
                        /\ \A column \in {"shift", "ctrl"} :
                             /\ flags.shift /\ flags.ctrl /\ ~flags.altgr
                             /\ categoryAction(d.item.category, column)
                                  # categoryAction(d.item.category, "none")
                             => performed(d) # categoryAction(d.item.category, column)
    ]_vars

\* Calls for a vault result are in flight, one dispatched with Shift and Ctrl
\* held and one with Alt held; for both the secret is revealed and typed.
C17_VaultWithReservedKeys ==
  \E d, e \in BagToSet(dispatches) :
    /\ d.item.category = "onepass" /\ d.modifier = "shift_ctrl"
    /\ e.item.category = "onepass" /\ e.modifier = "alt"
    /\ performed(d) = "reveal and type secret"
    /\ performed(e) = "reveal and type secret"
    /\ categoryAction("onepass", "shift") = "copy secret"


\* The modifiers in the order of their precedence, and the keys each needs.
C18_precedence == <<"altgr", "shift_ctrl", "shift", "ctrl", "alt", "none">>

C18_held(flags, modifier) ==
  CASE modifier = "altgr" -> flags.altgr
    [] modifier = "shift_ctrl" -> flags.shift /\ flags.ctrl
    [] modifier = "shift" -> flags.shift
    [] modifier = "ctrl" -> flags.ctrl
    [] modifier = "alt" -> flags.alt
    [] modifier = "none" -> TRUE

\* C18: for each of the sixteen combinations of the four key flags
\* parseModifier returns one of the six modifiers, the first in the order
\* altgr, shift_ctrl, shift, ctrl, alt, none whose keys are held; a call
\* Enter starts with execute_action or record_launch carries that modifier
\* and the call a click starts carries none.
C18_ModifierByPrecedence ==
  [][ /\ \A flags \in Flags :
           LET k == CHOOSE k \in 1..6 :
                      /\ C18_held(flags, C18_precedence[k])
                      /\ \A j \in 1..(k - 1) : ~C18_held(flags, C18_precedence[j])
           IN /\ parseModifier(flags) = C18_precedence[k]
              /\ Enter(flags) /\ dispatches' # dispatches
                   => \E d \in BagToSet(dispatches') :
                        /\ dispatches' = dispatches (+) SetToBag({d})
                        /\ d.calls[1] \in {"record_launch", "execute_action"}
                             => d.modifier = C18_precedence[k]
      /\ parseModifier([shift |-> TRUE, ctrl |-> FALSE, alt |-> FALSE, altgr |-> FALSE]) = "shift"
      /\ parseModifier([shift |-> FALSE, ctrl |-> TRUE, alt |-> FALSE, altgr |-> FALSE]) = "ctrl"
      /\ parseModifier([shift |-> FALSE, ctrl |-> FALSE, alt |-> TRUE, altgr |-> FALSE]) = "alt"
      /\ parseModifier(NoKeys) = "none"
      /\ \A i \in DOMAIN results :
           Click(i) /\ dispatches' # dispatches
             => \E d \in BagToSet(dispatches') :
                  /\ dispatches' = dispatches (+) SetToBag({d})
                  /\ d.modifier = "none"
    ]_vars

\* Calls for an SSH host are in flight, one dispatched with AltGr held and
\* one with Ctrl held.
C18_AltGrAndCtrlDispatched ==
  \E d, e \in BagToSet(dispatches) :
    /\ d.item.category = "ssh" /\ d.modifier = "altgr"
    /\ e.item.category = "ssh" /\ e.modifier = "ctrl"


C20_before(f) == {r \in indexer.before : r.path = f.path}

\* What holds of every incremental update that completed, whether or not a
\* changed file's record must have been replaced when the file was skipped.
C20_afterIncremental(skippedToo) ==
  indexer.state = "Done" /\ indexer.mode = "incremental"
    => /\ \A f \in indexer.seen :
            /\ embedding(f) \in C20_before(f)
                 => f.path \notin indexer.embedded /\ embedding(f) \in store
            /\ ( /\ C20_before(f) # {} /\ embedding(f) \notin C20_before(f)
                 /\ skippedToo \/ f.path \notin indexer.failed )
                 => {r \in store : r.path = f.path} = {embedding(f)}
       /\ \A r \in store : \E f \in indexer.seen : f.path = r.path
       /\ \A r, s \in store : r.path = s.path => r = s

C21_IndicatorShowsLastCheck ==
  /\ healthIndicator
       <=> /\ ~secondaryMode.active
           /\ health.last.completed
           /\ \/ health.last.failed
              \/ ~health.last.status.ollama
              \/ ~health.last.status.vector_db
  /\ health.last.completed /\ ~health.last.failed
       => health.ok = healthy([health.last.status EXCEPT !.api_key = ~@])

\* The last health check answered that only the API key is missing, while
\* another check is in flight: no indicator is shown.
C21_OnlyApiKeyMissing ==
  /\ health.last.completed /\ ~health.last.failed
  /\ health.last.status = [ollama |-> TRUE, vector_db |-> TRUE, api_key |-> FALSE]
  /\ health.pending = 1
  /\ ~secondaryMode.active /\ ~healthIndicator


\* C22: a step that changes the query leaves no chat answer, and a chat
\* answer that appears is that of a call dispatched for the query the input
\* holds: were no answer displayed after a query change until the next chat
\* request, the call that answers would have been dispatched after the last
\* change of the query, for the query that is still there.
C22_QueryChangeClearsChatAnswer ==
  [][ /\ query' # query => chatAnswer' = ""
      /\ \A d \in BagToSet(dispatches), ok \in BOOLEAN :
           ChatAskReturns(d, ok) /\ chatAnswer' # ""
             => d.query = query ]_vars


\* text holds part at some position.
C23_contains(text, part) ==
  \E i \in 1..(Len(text) - Len(part) + 1) :
    \A k \in 1..Len(part) : text[i + k - 1] = part[k]

\* The results of the entries of the settings table that pass a test, in the
\* order of the table.
C23_entries(test(_)) ==
  LET kept == SelectSeq(settings, test)
  IN [i \in 1..Len(kept) |-> Result(kept[i].id, <<>>, kept[i].name, <<>>, "action")]

\* What a search for a query that starts with ":" returns, where an entry
\* matches a remainder as matches(entry, remainder) says.
C23_settingsSearch(matches(_, _)) ==
     \A q \in searches :
        SearchReturns(q) /\ q # <<>> /\ q[1] = ":"
          => LET remainder == trim(slice(q, 1))
                 test(s) == matches(s, remainder)
                 whole(s) == TRUE
             IN /\ slice(q, 1) = <<>> => results' = C23_entries(whole)
                /\ slice(q, 1) # <<>> => results' = C23_entries(test)
                /\ \A i \in DOMAIN results' : results'[i].category = "action"

\* An entry's id, name or description contains the remainder as it is.
C23_literal(s, remainder) ==
  \/ C23_contains(s.idText, remainder)
  \/ C23_contains(<<":">> \o s.idText, remainder)
  \/ C23_contains(s.description, remainder)

\* An entry's id, name or description contains the remainder, letters
\* compared without regard to case.
C23_caseless(s, remainder) ==
  \/ C23_contains(toLowerCase(s.idText), toLowerCase(remainder))
  \/ C23_contains(toLowerCase(<<":">> \o s.idText), toLowerCase(remainder))
  \/ C23_contains(toLowerCase(s.description), toLowerCase(remainder))

\* C23 as stated: ":" alone returns the six entries of the settings table,
\* ":" with a remainder returns the entries whose id, name or description
\* contains the trimmed remainder, and every result has category action.
C23_SettingsBySubstring == [][C23_settingsSearch(C23_literal)]_vars

\* C23 amended: the same, where the entries returned are those whose id,
\* name or description contains the trimmed remainder without regard to the
\* case of letters.
C23_SettingsBySubstringIgnoringCase ==
  [][C23_settingsSearch(C23_caseless)]_vars

\* The search for ":S" has returned stats, for its id holds an "s", before
\* which it returned reindex, whose description alone holds one.
C23_UpperCaseRemainderMatches ==
  /\ query = <<":", "S">> /\ searches = {}
  /\ \E i, j \in DOMAIN results :
       /\ i < j
       /\ results[i].id = <<"reindex", <<>>>>
       /\ results[j].id = <<"stats", <<>>>>
  /\ \A i \in DOMAIN results : results[i].category = "action"


\* C24: a search request that fails leaves the empty result list and nothing
\* else but the request gone: no notification, no change of the query, of the
\* debounce timer or of the other requests in flight; and whatever failed
\* before, a query can be typed whenever the window shows the query input,
\* and a search that returns shows its results with the first selected.
C24_FailedSearchLeavesEmptyList ==
  [][ /\ \A q \in searches :
           SearchFails(q)
             => /\ results' = <<>>
                /\ searches' = searches \ {q}
                /\ UNCHANGED << query, notification, notificationTimer, searchTimer,
                                secondaryMode, secondaryInput, chatAnswer, chatLoading,
                                dispatches, hidden >>
      /\ \A q \in searches :
           SearchReturns(q) => results' = search(q) /\ selectedIndex' = 0
      /\ \A q \in Queries :
           ~hidden /\ ~secondaryMode.active /\ q # query /\ typed < MaxTyped
             => ENABLED TypeQuery(q) ]_vars

\* The search for "?" failed and no other is under way: the list is empty
\* under a query that has a result, and no notification is shown.
C24_SearchFailed ==
  /\ query = <<"?">> /\ search(<<"?">>) # <<>> /\ results = <<>>
  /\ searches = {} /\ searchTimer = {}
  /\ notification = "" /\ ~hidden /\ ~secondaryMode.active
  /\ launches = <<>> /\ visibilityEpoch = 0


\* C25: when no debounce timer is pending and no search request is in
\* flight, the results are those of the search for the query the input
\* holds, which is the query searched for last, or the empty list a failed
\* search leaves.
C25_ResultsOfLatestQuery ==
  searches = {} /\ searchTimer = {} => results \in {search(query), <<>>}


\* C26: while the view keeps the label it was mounted with, each line the
\* command wrote is in the view at most once and the lines stand in the order
\* the command wrote them: their numbers increase strictly from top to bottom.
C26_EachLineOnceInOrder ==
  output.effect = 0 =>
    \A i, j \in DOMAIN output.lines :
      i < j => output.lines[i][2] < output.lines[j][2]


\* C27: after the label changed the view holds only lines of the new label,
\* and the answer to a poll made for another label than the view's appends no
\* line and changes neither the since-index nor the done flag nor the exit
\* code.
C27_answerForPreviousLabel ==
  /\ \A p \in BagToSet(output.polls) :
       PollReturns(p) /\ p.label # output.label =>
         /\ output'.lines = output.lines
         /\ output'.sinceIndex = output.sinceIndex
         /\ output'.done = output.done
         /\ output'.exitCode = output.exitCode
  /\ \A i \in DOMAIN output'.lines : output'.lines[i][1] = output'.label

C27_OnlyLinesOfNewLabel == [][C27_answerForPreviousLabel]_vars


\* C28: while the view keeps the label it was mounted with, the interval is
\* stopped by the answer that carries done = true and by the failure that
\* makes 20 failures in a row (an answer in between puts the count back to
\* 0), and by nothing else; once it is stopped it stays stopped and no
\* get_output request is made.
C28_pollingStep ==
  (output.effect = 0 /\ output'.effect = 0) =>
    /\ \A p \in BagToSet(output.polls) :
         /\ PollReturns(p) => output'.errorCount = 0
         /\ PollFails(p) => output'.errorCount = output.errorCount + 1
         /\ (PollReturns(p) /\ p.effect = output.effect /\ snapshot(p).done)
              => ~output'.polling
         /\ (PollFails(p) /\ p.effect = output.effect
               /\ output.errorCount + 1 >= MAX_CONSECUTIVE_ERRORS)
              => ~output'.polling
    /\ (output.polling /\ ~output'.polling) =>
         \E p \in BagToSet(output.polls) :
           \/ PollReturns(p) /\ snapshot(p).done
           \/ PollFails(p) /\ output'.errorCount = MAX_CONSECUTIVE_ERRORS
    /\ ~output.polling =>
         /\ ~output'.polling
         /\ BagCardinality(output'.polls) <= BagCardinality(output.polls)

C28_PollingStopsOnDoneOrTwentyFailures == [][C28_pollingStep]_vars

\* The view gave up after 20 failures in a row, the command still running.
C28_GaveUp ==
  /\ ~output.polling /\ output.effect = 0
  /\ output.pollError = MAX_CONSECUTIVE_ERRORS /\ ~output.done


\* C29: outside secondary-input mode there is no pending result, the query
\* to restore is empty and the secondary input is empty; in secondary-input
\* mode the pending result has an input_spec and the query is empty.
C29_SecondaryModeShape ==
  /\ ~secondaryMode.active =>
       /\ secondaryMode.result = <<>>
       /\ secondaryMode.previousQuery = <<>>
       /\ secondaryInput = <<>>
  /\ secondaryMode.active =>
       /\ secondaryMode.result # <<>>
       /\ secondaryMode.result[1].input_spec
       /\ query = <<>>

\* Secondary-input mode entered from a typed query, with text in its input.
C29_TypingInSecondaryMode ==
  /\ secondaryMode.active /\ secondaryMode.previousQuery # <<>>
  /\ secondaryInput # <<>>


\* C30: the result captured on entering secondary-input mode stays the
\* pending one for as long as the mode is active, whatever search answers
\* arrive and whatever is typed, and the call Enter starts in the mode is for
\* that result, not for the entry the list selects by then.
C30_confirmation ==
  /\ (secondaryMode.active /\ secondaryMode'.active)
       => secondaryMode'.result = secondaryMode.result
  /\ \A flags \in KeyFlags :
       (secondaryMode.active /\ Enter(flags)) =>
         \E d \in BagToSet(dispatches') :
           /\ dispatches' = dispatches (+) SetToBag({d})
           /\ <<d.item>> = secondaryMode.result
           /\ d.item.input_spec

C30_ConfirmExecutesCapturedResult == [][C30_confirmation]_vars

\* The call for the captured result is in flight while the list, replaced by
\* the answer to the search for the empty query, no longer holds that result
\* and selects its first entry.
C30_ConfirmedAfterListReplaced ==
  /\ ~secondaryMode.active /\ query = <<>>
  /\ results # <<>> /\ selectedIndex = 0
  /\ \E d \in BagToSet(dispatches) :
       /\ d.item.input_spec /\ d.secondaryInput # <<>>
       /\ \A i \in DOMAIN results : results[i] # d.item


\* C31: in secondary-input mode typing changes the secondary input and
\* nothing else (the query stays, no debounce timer is set and no search
\* request is made), and ArrowUp and ArrowDown leave the selection index as
\* it is.
C31_secondaryKeys ==
  secondaryMode.active =>
    /\ \A q \in Queries : ~TypeQuery(q)
    /\ \A v \in SecondaryInputs :
         TypeSecondary(v) =>
           /\ secondaryInput' = v
           /\ query' = query /\ results' = results
           /\ searchTimer' = searchTimer /\ searches' = searches
           /\ selectedIndex' = selectedIndex
    /\ (ArrowUp \/ ArrowDown) => selectedIndex' = selectedIndex

C31_SecondaryTypingLeavesQuery == [][C31_secondaryKeys]_vars

\* Text typed in secondary-input mode, the list of the empty query shown
\* behind it, no search pending or in flight.
C31_TypedInSecondaryMode ==
  /\ secondaryMode.active /\ secondaryInput = <<"s">>
  /\ query = <<>> /\ Len(results) = 2
  /\ searchTimer = {} /\ searches = {}


\* C32: the selection index is never negative, and it is less than the
\* length of the result list whenever the list is not empty.
C32_SelectionInRange ==
  /\ selectedIndex >= 0
  /\ results # <<>> => selectedIndex < Len(results)


\* C33: the answer or the error of a chat_ask whose request was made before
\* the window was last hidden changes neither the displayed chat answer nor
\* the loading flag, whether the window is still hidden or is shown again
\* with a newer chat request pending.
C33_lateAnswer ==
  \A d \in BagToSet(dispatches), ok \in BOOLEAN :
    (ChatAskReturns(d, ok) /\ d.epoch < visibilityEpoch) =>
      /\ chatAnswer' = chatAnswer
      /\ chatLoading' = chatLoading

C33_AnswerAfterHideDiscarded == [][C33_lateAnswer]_vars

\* The window is shown again, a chat request made before it was hidden and a
\* newer one are both awaited, and the loading flag is that of the newer one.
C33_OldAndNewRequestPending ==
  /\ ~hidden /\ chatLoading /\ chatAnswer = ""
  /\ \E d, e \in BagToSet(dispatches) :
       /\ d.pc = "chat_ask" /\ d.epoch < visibilityEpoch
       /\ e.pc = "chat_ask" /\ e.epoch = visibilityEpoch


\* C34: a change of the query cancels the debounce timer of the query it
\* supersedes, so that at most one timer is pending and it holds the query of
\* the input, and a search request that is issued is for the query the input
\* holds: of the queries of a burst only the last one is searched.
C34_debounce ==
  /\ searchTimer' \subseteq {query'}
  /\ SearchTimerFires => searches' = searches \cup {query}
  /\ \A q \in searches' \ searches : q = query'

C34_OnlyLastQueryOfBurstSearched == [][C34_debounce]_vars

\* "#" was typed while the timer of the empty query was pending or spent; its
\* own timer has fired and its search is the only one in flight, the list
\* still that of the empty query.
C34_TypedQuerySearched ==
  /\ typed = 1 /\ query = <<"#">> /\ ~hidden
  /\ searchTimer = {} /\ searches = {<<"#">>}
  /\ results = search(<<>>)


\* C35: Escape outside secondary-input mode makes one hide_window request and
\* leaves the query, the calls in flight, the ledger and the visibility of the
\* window as they are; Escape in secondary-input mode makes no hide_window
\* request.
C35_escape ==
  Escape =>
    IF secondaryMode.active
    THEN window' = window
    ELSE /\ window'.hideRequests = window.hideRequests + 1
         /\ query' = query /\ searchTimer' = searchTimer /\ searches' = searches
         /\ dispatches' = dispatches /\ history' = history /\ launches' = launches
         /\ notification' = notification /\ chatLoading' = chatLoading
         /\ secondaryMode' = secondaryMode /\ hidden' = hidden

C36_command(category) == IF category = "chat" THEN "chat_ask" ELSE "run_setting"

\* C36: Enter on a chat result or on a settings result starts, whatever
\* modifier keys are held, the call that plain Enter starts: it invokes
\* chat_ask, respectively run_setting for the result (whose id names the
\* action), and a call for these two categories invokes that one command
\* once and never execute_action.
C36_sameForEveryModifier ==
  /\ \A flags \in Flags :
       LET it == actionItem(<<>>)
       IN (/\ it # <<>>
           /\ it[1].category \in {"chat", "action"}
           /\ Enter(flags))
          => LET d == Dispatch(it[1], "none", <<>>, C36_command(it[1].category))
             IN /\ dispatches' = dispatches (+) SetToBag({d})
                /\ d.item.id = it[1].id
                /\ d.modifier = "none"
                /\ d.calls = <<C36_command(it[1].category)>>
  /\ \A d \in BagToSet(dispatches') :
       d.item.category \in {"chat", "action"}
         => /\ d.calls = <<C36_command(d.item.category)>>
            /\ d.pc = C36_command(d.item.category)

C36_ChatAndSettingsIgnoreModifiers == [][C36_sameForEveryModifier]_vars

\* Two calls for the settings result are awaiting run_setting, the
\* notification says that the action is running.
C36_SettingRunningTwice ==
  /\ notification = "running"
  /\ \E d \in BagToSet(dispatches) :
       /\ d.item.category = "action" /\ d.pc = "run_setting"
       /\ dispatches[d] = 2


\* C37: the hover phase changes from initial to tracking and from tracking
\* to enabled only, and back to initial only in the step that hides the
\* window; the position taken on entering tracking is that of the move and
\* stays while tracking; enabled is entered by a move more than 10 px away
\* from that position; entering a result changes the selection in phase
\* enabled only.
C37_hover ==
  /\ mouseState'.phase # mouseState.phase =>
       \/ /\ mouseState.phase = "initial" /\ mouseState'.phase = "tracking"
          /\ \E x \in HoverXs, y \in Ys :
               MouseMove(x, y) /\ mouseState'.x = x /\ mouseState'.y = y
       \/ /\ mouseState.phase = "tracking" /\ mouseState'.phase = "enabled"
          /\ \E x \in HoverXs, y \in Ys :
               /\ MouseMove(x, y)
               /\ (x - mouseState.x) * (x - mouseState.x)
                    + (y - mouseState.y) * (y - mouseState.y) > 10 * 10
       \/ mouseState'.phase = "initial" /\ ~hidden /\ hidden'
  /\ (mouseState.phase = "tracking" /\ mouseState'.phase = "tracking")
       => mouseState' = mouseState
  /\ \A i \in 1..2 :
       (MouseEnter(i) /\ selectedIndex' # selectedIndex)
         => mouseState.phase = "enabled" /\ selectedIndex' = i - 1

C37_HoverSelectsWhenEnabled == [][C37_hover]_vars

\* After the window was hidden and shown again the pointer has moved far
\* enough, and the second result is selected by hovering it.
C37_HoveredAfterShownAgain ==
  /\ ~hidden /\ visibilityEpoch = 1
  /\ mouseState.phase = "enabled"
  /\ Len(results) = 2 /\ selectedIndex = 1


\* C38: the timeout of the blur effect asks for hide_window only while the
\* window is without the focus, that is 150 ms after its most recent blur
\* with no focus event since; a blur starts the timeout anew, a focus event
\* cancels it, and at most one timeout is pending.
C38_hideOnBlur ==
  /\ BlurTimerFires =>
       /\ ~window.focused
       /\ window'.hideRequests = window.hideRequests + 1
       /\ window'.blurTimer = 0
  /\ Blur => window'.blurTimer = 1
  /\ Focus => window'.blurTimer = 0 /\ window'.hideRequests = window.hideRequests
  /\ window'.blurTimer <= 1
  /\ window'.focused => window'.blurTimer = 0

C38_HideAfterBlurUnlessFocused == [][C38_hideOnBlur]_vars

\* The window lost the focus, its timeout has fired and the request to hide
\* the window is awaited.
C38_HideRequestedAfterBlur ==
  /\ ~window.focused /\ window.blurTimer = 0 /\ window.hideRequests = 1
  /\ ~hidden



\* The JSON values of at most n characters, built from the grammar: null,
\* a number, a string, an array of values separated by commas.
RECURSIVE C39_values(_)
RECURSIVE C39_elements(_)
C39_spaces(n) == {[i \in 1..k |-> SP] : k \in 0..n}

C39_values(n) ==
  IF n <= 0 THEN {}
  ELSE LET short(S) == {t \in S : Len(t) <= n}
       IN short({<<"n", "u", "l", "l">>})
          \cup {[i \in 1..k |-> "1"] : k \in 1..n}
          \cup short({<<"\"">> \o t \o <<"\"">> :
                        t \in UNION {[1..k -> BodyChars \ {"\""}] : k \in 0..(n - 2)}})
          \cup short({<<"[">> \o w \o <<"]">> : w \in C39_spaces(n - 2)})
          \cup short({<<"[">> \o w \o e \o <<"]">> :
                        w \in C39_spaces(n - 3), e \in C39_elements(n - 2)})

\* Values separated by commas, with white space around each, of at most n
\* characters.
C39_elements(n) ==
  IF n <= 0 THEN {}
  ELSE LET short(S) == {t \in S : Len(t) <= n}
       IN short({v \o w : v \in C39_values(n), w \in C39_spaces(n - 1)})
          \cup short({v \o w \o <<",">> \o x \o e :
                        v \in C39_values(n - 2), w \in C39_spaces(n - 3),
                        x \in C39_spaces(n - 3), e \in C39_elements(n - 2)})

\* The bodies that are JSON texts: a value with white space around it.
C39_JsonTexts ==
  {t \in {w \o v \o x : w \in C39_spaces(MaxBody - 1), v \in C39_values(MaxBody),
                        x \in C39_spaces(MaxBody - 1)} : Len(t) <= MaxBody}

\* C39: outside the webview a finished call of invoke has resolved only if
\* the server was reached, the status was in 200-299 and the body is a JSON
\* text; with no server, with another status or with a body that is not a
\* JSON text it has rejected with an Error and has no value.
C39_ResolvesOnlyForOkJson ==
  (bridge.pc = "done" /\ ~bridge.server[1].webview) =>
    LET server == bridge.server[1]
        outcome == bridge.outcome[1]
        isOk == server.status \in 200..299
    IN /\ outcome.resolved =>
            server.reachable /\ isOk /\ server.readable /\ server.body \in C39_JsonTexts
       /\ ~server.reachable =>
            ~outcome.resolved /\ outcome.value = <<>>
            /\ outcome.error = "Cannot reach dev server"
       /\ (server.reachable /\ ~isOk) =>
            ~outcome.resolved /\ outcome.value = <<>> /\ outcome.error = "failed"
       /\ (server.reachable /\ isOk /\ server.body \notin C39_JsonTexts) =>
            ~outcome.resolved /\ outcome.value = <<>>
            /\ outcome.error \in {"returned invalid JSON", "TypeError"}

\* A call answered with status 299 and a body that is almost an array has
\* rejected.
C39_InvalidBodyRejected ==
  /\ bridge.pc = "done"
  /\ bridge.server[1].status = 299
  /\ bridge.server[1].readable
  /\ bridge.server[1].body = <<"[", "1", ",", "]">>
  /\ ~bridge.outcome[1].resolved

====
